---- MODULE Spec2Model ----
(***************************************************************************)
(* Static code-graph construction engine: CodeScanner (file discovery),    *)
(* PythonParser (per-file structure) and RelationshipExtractor (two-phase  *)
(* graph assembly), modelled from src/src/ingestion/{scanner,parser,       *)
(* extractor}.py.                                                          *)
(*                                                                         *)
(* Strings are Python strings; ids are built by concatenation exactly as   *)
(* the f-strings of the source build them.  A Path object is the sequence  *)
(* of its parts; a source text is its syntax tree (the value ast.parse     *)
(* returns), or a marker of the exception ast.parse raises on it.          *)
(***************************************************************************)
EXTENDS Integers, Sequences, FiniteSets, TLC

VARIABLES
    flavour,            \* pathlib flavour of the host: "posix" or "nt"
    cwd,                \* working directory of the process (parts)
    root,               \* Path given to scan / process_codebase (parts)
    root_kind,          \* what is at root: "dir" | "file" | "missing"
    fs,                 \* the directory tree below root: set of entries
    op,                 \* running operation: "process_codebase" | "scan_to_list"
    pc,                 \* position inside the running operation
    todo,               \* entries root.rglob("*") has not produced yet
    yielded,            \* Paths yielded by CodeScanner.scan so far
    cur,                \* Path bound to file_path in the loop of process_codebase
    parsed_files,       \* list[ParsedFile] of process_codebase
    graph,              \* RelationshipExtractor.graph (CodeGraph)
    registry,           \* RelationshipExtractor._function_registry
    ops,                \* graph / registry mutations of the running handler not yet executed
    items,              \* loop iterations of _extract_relationships not yet executed
    phase2_idx,         \* index into parsed_files of the second pass
    result,             \* outcome of the last parser entry-point call
    calls,              \* the calls made so far, each with what it returned
    store               \* locals of the running index_graph

vars == <<flavour, cwd, root, root_kind, fs, calls, store, op, pc, todo, yielded, cur, parsed_files, graph,
          registry, ops, items, phase2_idx, result>>

(***************************************************************************)
(* Bounds                                                                  *)
(***************************************************************************)
\* most source files below the root in a process_codebase run
MaxFiles == 2
\* most directory entries below the root in a scan_to_list run
MaxEntries == 4

NONE == "<None>"

(***************************************************************************)
(* Generic helpers                                                         *)
(***************************************************************************)
Range(s) == {s[i] : i \in 1..Len(s)}

\* the concatenation of the sequences in ss
RECURSIVE Flatten(_)
Flatten(ss) ==
    IF ss = <<>> THEN <<>>
    ELSE IF Len(ss) = 1 THEN ss[1]
    ELSE LET half == Len(ss) \div 2
         IN  Flatten(SubSeq(ss, 1, half)) \o Flatten(SubSeq(ss, half + 1, Len(ss)))

\* [f(x) for x in s]
Map(f(_), s) == [i \in 1..Len(s) |-> f(s[i])]

\* sep.join(s)
RECURSIVE Join(_, _)
Join(s, sep) ==
    IF s = <<>> THEN ""
    ELSE IF Len(s) = 1 THEN s[1]
    ELSE s[1] \o sep \o Join(Tail(s), sep)

(***************************************************************************)
(* pathlib                                                                 *)
(***************************************************************************)
\* a file name and its PurePath.suffix
NameTable ==
    { [name |-> "a.py",        suffix |-> ".py"],
      [name |-> "b.py",        suffix |-> ".py"],
      [name |-> "v.py",        suffix |-> ".py"],
      [name |-> "c.py",        suffix |-> ".py"],
      [name |-> "d.py",        suffix |-> ".py"],
      [name |-> "models.py",   suffix |-> ".py"],
      [name |-> "auth.py",     suffix |-> ".py"],
      [name |-> "app.js",      suffix |-> ".js"],
      [name |-> "README.md",   suffix |-> ".md"],
      [name |-> ".py",         suffix |-> ""],
      [name |-> "pkg",         suffix |-> ""],
      [name |-> "venv",        suffix |-> ""],
      [name |-> "build",       suffix |-> ""],
      [name |-> "repo",        suffix |-> ""],
      [name |-> "home",        suffix |-> ""],
      [name |-> "__pycache__", suffix |-> ""] }

\* PurePath.suffix
Suffix(path) ==
    (CHOOSE r \in NameTable : r.name = path[Len(path)]).suffix

\* PurePath.name
PathName(path) == path[Len(path)]

\* first part (drive and root) of an absolute path
Anchor(fl) == IF fl = "nt" THEN "C:\\" ELSE "/"

IsAbsolute(path) == path # <<>> /\ path[1] \in {"/", "C:\\"}

\* working directories a process can be started in: one with no ignored
\* name in it, and one below a directory called build
WorkingDirs(fl) == { <<Anchor(fl), "home">>, <<Anchor(fl), "build", "home">> }

\* Path.absolute(): a relative path is appended to the working directory
absolute(path, fl) == IF IsAbsolute(path) THEN path ELSE cwd \o path

\* str(path): the parts joined by the flavour's separator, which the anchor
\* of an absolute path already ends with
PathStr(path, fl) ==
    IF IsAbsolute(path)
    THEN path[1] \o Join(Tail(path), IF fl = "nt" THEN "\\" ELSE "/")
    ELSE Join(path, IF fl = "nt" THEN "\\" ELSE "/")

\* PurePath.as_posix(): str(path) with the separator replaced by "/"
as_posix(path) ==
    (IF path[1] = "C:\\" THEN "C:/" ELSE path[1]) \o Join(Tail(path), "/")

\* roots a scan can be given: absolute, relative to the working directory,
\* and below a directory called build
Roots(fl) == { <<Anchor(fl), "repo">>, <<"repo">>, <<Anchor(fl), "build", "repo">> }

\* relative locations below a root
RelPaths ==
    { <<"a.py">>, <<"pkg">>, <<"pkg", "b.py">>, <<"venv">>, <<"venv", "v.py">>,
      <<"venv", "pkg">>, <<"venv", "pkg", "c.py">>, <<"pkg", "__pycache__">>,
      <<"README.md">>, <<"app.js">>, <<"d.py">>, <<"models.py">>, <<"auth.py">> }

\* every absolute Path the model can form, to read a path string back into
\* a Path
AllPaths ==
    UNION { UNION { UNION { { (IF IsAbsolute(r) THEN r ELSE w \o r) \o rel :
                                rel \in RelPaths } : r \in Roots(fl) } :
                    w \in WorkingDirs(fl) } :
            fl \in {"posix", "nt"} }

\* Path(s): the Path whose string is s
PathOf(s, fl) == CHOOSE p \in AllPaths : PathStr(p, fl) = s

(***************************************************************************)
(* Syntax trees (module ast).  Only the node fields the parser and the     *)
(* extractor read are kept; lineno is the node's line.                     *)
(***************************************************************************)
Name(id) == [t |-> "Name", id |-> id]
Attribute(value, attr) == [t |-> "Attribute", value |-> value, attr |-> attr]
Call(func, args, lineno) ==
    [t |-> "Call", func |-> func, args |-> args, lineno |-> lineno]
Expr(value) == [t |-> "Expr", value |-> value]
Import(names, lineno) == [t |-> "Import", names |-> names, lineno |-> lineno]
ImportFrom(module, names, lineno) ==
    [t |-> "ImportFrom", module |-> module, names |-> names, lineno |-> lineno]
ClassDef(name, bases, body, lineno) ==
    [t |-> "ClassDef", name |-> name, bases |-> bases, body |-> body,
     lineno |-> lineno]
\* ast.arguments: the parameter names (arg.arg) of each kind, in the order
\* of the declaration within the kind; vararg and kwarg are a name or None
arguments(posonlyargs, args, vararg, kwonlyargs, kwarg) ==
    [t |-> "arguments", posonlyargs |-> posonlyargs, args |-> args,
     vararg |-> vararg, kwonlyargs |-> kwonlyargs, kwarg |-> kwarg]
\* plain parameters only: def f(a, b)
Args(names) == arguments(<<>>, names, NONE, <<>>, NONE)
FunctionDef(name, args, body, lineno) ==
    [t |-> "FunctionDef", name |-> name, args |-> args, body |-> body,
     lineno |-> lineno]
AsyncFunctionDef(name, args, body, lineno) ==
    [t |-> "AsyncFunctionDef", name |-> name, args |-> args, body |-> body,
     lineno |-> lineno]
If(body) == [t |-> "If", body |-> body]
\* a statement or expression of any other class (Return, Assign, Compare...)
Node(children) == [t |-> "Node", children |-> children]
Pass == [t |-> "Pass"]
Module(body) == [t |-> "Module", body |-> body]

\* ast.iter_child_nodes: the child nodes in field order
iter_child_nodes(node) ==
    CASE node.t = "Module"           -> node.body
      [] node.t = "ClassDef"         -> node.bases \o node.body
      [] node.t = "FunctionDef"      -> node.body
      [] node.t = "AsyncFunctionDef" -> node.body
      [] node.t = "If"               -> node.body
      [] node.t = "Node"             -> node.children
      [] node.t = "Expr"             -> <<node.value>>
      [] node.t = "Call"             -> <<node.func>> \o node.args
      [] node.t = "Attribute"        -> <<node.value>>
      [] OTHER                       -> <<>>

\* ast.walk: breadth-first over a queue of nodes.  The nodes in the queue
\* leave it in order, each putting its children at the end: what follows
\* them is the walk of all their children, in that order
RECURSIVE walk_queue(_)
walk_queue(todo_) ==
    IF todo_ = <<>> THEN <<>>
    ELSE todo_ \o walk_queue(Flatten(Map(iter_child_nodes, todo_)))

walk(node) == walk_queue(<<node>>)

(***************************************************************************)
(* Source texts.  ast.parse(text) returns the tree, or raises exc.         *)
(***************************************************************************)
\*  1 import os
\*  2 class Base:
\*  3     def save(self):
\*  4         self.validate()
\*  5     def validate(self):
\*  6         self.validate()
\*  7 class User(Base):
\*  8     pass
\*  9 async def helper():
\* 10     helper()
\* 11     if x:
\* 12         import json
SrcModels ==
    Module(<<
        Import(<<"os">>, 1),
        ClassDef("Base", <<>>, <<
            FunctionDef("save", Args(<<"self">>), <<
                Expr(Call(Attribute(Name("self"), "validate"), <<>>, 4)) >>, 3),
            FunctionDef("validate", Args(<<"self">>), <<
                Expr(Call(Attribute(Name("self"), "validate"), <<>>, 6)) >>, 5)
          >>, 2),
        ClassDef("User", <<Name("Base")>>, <<Pass>>, 7),
        AsyncFunctionDef("helper", Args(<<>>), <<
            Expr(Call(Name("helper"), <<>>, 10)),
            If(<<Import(<<"json">>, 12)>>) >>, 9) >>)

\*  1 from models import Base, User
\*  2 import os
\*  3 class Sub(Base):
\*  4     def run(self):
\*  5         helper(save())
\*  6         make()()
\*  7 def main():
\*  8     Sub().run()
\*  9     def inner():
\* 10         main()
SrcSub ==
    Module(<<
        ImportFrom("models", <<"Base", "User">>, 1),
        Import(<<"os">>, 2),
        ClassDef("Sub", <<Name("Base")>>, <<
            FunctionDef("run", Args(<<"self">>), <<
                Expr(Call(Name("helper"), <<Call(Name("save"), <<>>, 5)>>, 5)),
                Expr(Call(Call(Name("make"), <<>>, 6), <<>>, 6)) >>, 4)
          >>, 3),
        FunctionDef("main", Args(<<>>), <<
            Expr(Call(Attribute(Call(Name("Sub"), <<>>, 8), "run"), <<>>, 8)),
            FunctionDef("inner", Args(<<>>), <<
                Expr(Call(Name("main"), <<>>, 10)) >>, 9) >>, 7) >>)

\*  1 class Foo:
\*  2     def m(self):
\*  3         Foo()
\*  4 def Foo():
\*  5     m()
\*  6 class Sub(pkg.Base, Generic[T]):
\*  7     pass
\*  8 from . import os
\*  9 def Base():
\* 10     pass
\* 11 class Child(Base):
\* 12     pass
SrcClash ==
    Module(<<
        ClassDef("Foo", <<>>, <<
            FunctionDef("m", Args(<<"self">>), <<
                Expr(Call(Name("Foo"), <<>>, 3)) >>, 2) >>, 1),
        FunctionDef("Foo", Args(<<>>), <<
            Expr(Call(Name("m"), <<>>, 5)) >>, 4),
        ClassDef("Sub", <<Attribute(Name("pkg"), "Base"), [t |-> "Subscript"]>>,
                 <<Pass>>, 6),
        ImportFrom(NONE, <<"os">>, 8),
        FunctionDef("Base", Args(<<>>), <<Pass>>, 9),
        ClassDef("Child", <<Name("Base")>>, <<Pass>>, 11) >>)

\* tests/sample_codebase/models.py.  Of the tree ast.parse returns, the
\* subtrees that hold no call, import, class or function definition are left
\* out (docstrings, annotations, constants), here and in the next tree
SampleModels ==
    Module(<<
        ImportFrom("dataclasses", <<"dataclass">>, 6),
        ImportFrom("typing", <<"Optional">>, 7),
        ClassDef("User", <<>>, <<>>, 15),
        ClassDef("BaseRepository", <<>>, <<
            FunctionDef("__init__", Args(<<"self", "connection_string">>), <<>>, 25),
            FunctionDef("connect", Args(<<"self">>), <<Expr(Call(Name("print"), <<>>, 31))>>, 29),
            FunctionDef("disconnect", Args(<<"self">>), <<Expr(Call(Name("print"), <<>>, 36))>>, 34) >>, 22),
        ClassDef("UserRepository", <<Name("BaseRepository")>>, <<
            FunctionDef("get_user", Args(<<"self", "user_id">>), <<Node(<<Node(<<Call(Name("User"), <<>>, 46)>>)>>)>>, 42),
            FunctionDef("save_user", Args(<<"self", "user">>), <<
                Expr(Call(Attribute(Name("self"), "_validate_user"), <<>>, 51)),
                Expr(Call(Name("print"), <<>>, 52)) >>, 49),
            FunctionDef("_validate_user", Args(<<"self", "user">>), <<Node(<<Node(<<Call(Name("ValueError"), <<>>, 58)>>)>>)>>, 55) >>, 39) >>)

\* tests/sample_codebase/auth.py
SampleAuth ==
    Module(<<
        ImportFrom("typing", <<"Optional">>, 5),
        ImportFrom("models", <<"User", "UserRepository">>, 6),
        ClassDef("AuthService", <<>>, <<
            FunctionDef("__init__", Args(<<"self", "user_repo">>), <<>>, 12),
            FunctionDef("authenticate", Args(<<"self", "user_id", "password">>), <<
                Node(<<
                    Call(Attribute(Attribute(Name("self"), "user_repo"), "get_user"), <<>>, 28) >>),
                Node(<<
                    Call(Attribute(Name("self"), "_verify_password"), <<>>, 33),
                    Node(<<
                        Call(Attribute(Name("self"), "_generate_token"), <<>>, 34) >>) >>) >>, 17),
            FunctionDef("_verify_password", Args(<<"self", "password">>), <<Node(<<Node(<<Call(Name("len"), <<>>, 42)>>)>>)>>, 40),
            FunctionDef("_generate_token", Args(<<"self", "user">>), <<
                Import(<<"hashlib">>, 46),
                Node(<<
                    Node(<<
                        Call(Attribute(Call(Attribute(Name("hashlib"), "sha256"), <<Call(Attribute(Name("data"), "encode"), <<>>, 48)>>, 48), "hexdigest"), <<>>, 48) >>) >>) >>, 44),
            FunctionDef("logout", Args(<<"self", "user_id">>), <<>>, 50),
            FunctionDef("is_authenticated", Args(<<"self", "user_id", "token">>), <<
                Node(<<
                    Node(<<
                        Call(Attribute(Attribute(Name("self"), "_session_cache"), "get"), <<>>, 59) >>) >>) >>, 57) >>, 9) >>)

\*  1 def f(a, /, b, *args, c, **kw):
\*  2     def nested(x):
\*  3         pass
\*  4 class K:
\*  5     def m(self, *, key):
\*  6         class Inner:
\*  7             def deep(self):
\*  8                 pass
\*  9     class Nested:
\* 10         def n(self):
\* 11             pass
\* 12     async def am(self, p, /, q):
\* 13         pass
\* 14 if x:
\* 15     def cond(z):
\* 16         pass
\* 17     class CondClass:
\* 18         pass
\* 19 def g():
\* 20     pass
SrcParams ==
    Module(<<
        FunctionDef("f", arguments(<<"a">>, <<"b">>, "args", <<"c">>, "kw"), <<FunctionDef("nested", Args(<<"x">>), <<>>, 2)>>, 1),
        ClassDef("K", <<>>, <<
            FunctionDef("m", arguments(<<>>, <<"self">>, NONE, <<"key">>, NONE), <<
                ClassDef("Inner", <<>>, <<FunctionDef("deep", Args(<<"self">>), <<>>, 7)>>, 6) >>, 5),
            ClassDef("Nested", <<>>, <<FunctionDef("n", Args(<<"self">>), <<>>, 10)>>, 9),
            AsyncFunctionDef("am", arguments(<<"self", "p">>, <<"q">>, NONE, <<>>, NONE), <<>>, 12) >>, 4),
        Node(<<
            FunctionDef("cond", Args(<<"z">>), <<>>, 15),
            ClassDef("CondClass", <<>>, <<>>, 17) >>),
        FunctionDef("g", Args(<<>>), <<>>, 19) >>)

\*  1 class A:
\*  2     def run(self):
\*  3         pass
\*  4 class B:
\*  5     def run(self):
\*  6         stop()
\*  7     def stop(self):
\*  8         pass
\*  9 def stop():
\* 10     run()
\* 11 def run():
\* 12     pass
SrcOrder ==
    Module(<<
        ClassDef("A", <<>>, <<FunctionDef("run", Args(<<"self">>), <<>>, 2)>>, 1),
        ClassDef("B", <<>>, <<
            FunctionDef("run", Args(<<"self">>), <<
                Expr(Call(Name("stop"), <<>>, 6)) >>, 5),
            FunctionDef("stop", Args(<<"self">>), <<>>, 7) >>, 4),
        FunctionDef("stop", Args(<<>>), <<
            Expr(Call(Name("run"), <<>>, 10)) >>, 9),
        FunctionDef("run", Args(<<>>), <<>>, 11) >>)

SourceKeys ==
    { "models", "sub", "clash", "order", "params", "bad", "deep", "locked",
      "sample_models", "sample_auth" }

\* Path.read_text(encoding="utf-8", errors="ignore") on a file holding the
\* text: the text, or the OSError raised
read_text(src) ==
    IF src = "locked" THEN [exc |-> "PermissionError"]
    ELSE [exc |-> NONE, text |-> src]

\* ast.parse(text): "bad" is `def broken(:`, "deep" is an attribute chain
\* deeper than the interpreter's recursion limit
ast_parse(text) ==
    CASE text = "models" -> [exc |-> NONE, tree |-> SrcModels]
      [] text = "sub"    -> [exc |-> NONE, tree |-> SrcSub]
      [] text = "clash"  -> [exc |-> NONE, tree |-> SrcClash]
      [] text = "order"  -> [exc |-> NONE, tree |-> SrcOrder]
      [] text = "params" -> [exc |-> NONE, tree |-> SrcParams]
      [] text = "sample_models" -> [exc |-> NONE, tree |-> SampleModels]
      [] text = "sample_auth"   -> [exc |-> NONE, tree |-> SampleAuth]
      [] text = "bad"    -> [exc |-> "SyntaxError"]
      [] text = "deep"   -> [exc |-> "RecursionError"]
      [] OTHER           -> [exc |-> NONE, tree |-> Module(<<>>)]

\* exception classes derived from Exception
IsException(exc) ==
    exc \in {"SyntaxError", "RecursionError", "PermissionError", "ServiceUnavailable"}

(***************************************************************************)
(* PythonParser                                                            *)
(***************************************************************************)
\* outcomes of a call: a returned ParsedFile, a returned None, a raised exception
Returned(value) == [kind |-> "ParsedFile", value |-> value]
None == [kind |-> "None"]
Raised(exc) == [kind |-> "raised", exc |-> exc]

IsFunctionDef(node) == node.t \in {"FunctionDef", "AsyncFunctionDef"}

\* FunctionInfo.qualified_name
qualified_name(f) ==
    IF f.class_name # NONE THEN f.class_name \o "." \o f.name ELSE f.name

_parse_import(node) ==
    [i \in 1..Len(node.names) |->
        [module |-> node.names[i], name |-> NONE,
         line_number |-> node.lineno, is_from_import |-> FALSE]]

_parse_from_import(node) ==
    LET module == IF node.module = NONE THEN "" ELSE node.module
    IN  [i \in 1..Len(node.names) |->
            [module |-> module, name |-> node.names[i],
             line_number |-> node.lineno, is_from_import |-> TRUE]]

RECURSIVE _get_attribute_name(_)
_get_attribute_name(node) ==
    IF node.value.t = "Name" THEN node.value.id \o "." \o node.attr
    ELSE IF node.value.t = "Attribute"
         THEN _get_attribute_name(node.value) \o "." \o node.attr
    ELSE node.attr

\* parameters=[arg.arg for arg in node.args.args]
_parse_function(node, file_path, class_name) ==
    [name |-> node.name, file_path |-> file_path, line_number |-> node.lineno,
     parameters |-> node.args.args,
     is_method |-> class_name # NONE, class_name |-> class_name]

\* fault: of the bases only the dotted ones (ast.Attribute) are collected
_parse_class_dotted_bases_only(node, file_path) ==
    LET BaseName(base) ==
            IF base.t = "Attribute" THEN <<_get_attribute_name(base)>> ELSE <<>>
        Method(item) == _parse_function(item, file_path, node.name)
    IN  [name |-> node.name, file_path |-> file_path,
         line_number |-> node.lineno,
         base_classes |-> Flatten(Map(BaseName, node.bases)),
         methods |-> Map(Method, SelectSeq(node.body, IsFunctionDef))]

_parse_class(node, file_path) ==
    LET BaseName(base) ==
            IF base.t = "Name" THEN <<base.id>>
            ELSE IF base.t = "Attribute" THEN <<_get_attribute_name(base)>>
            ELSE <<>>
        Method(item) == _parse_function(item, file_path, node.name)
    IN  [name |-> node.name, file_path |-> file_path,
         line_number |-> node.lineno,
         base_classes |-> Flatten(Map(BaseName, node.bases)),
         methods |-> Map(Method, SelectSeq(node.body, IsFunctionDef))]

\* fault: classes and functions collected from the whole tree (ast.walk)
\* instead of from the module body
parse_source_walk_definitions(source, file_path) ==
    LET parse == ast_parse(source)
        ImportsOf(node) ==
            IF node.t = "Import" THEN _parse_import(node)
            ELSE IF node.t = "ImportFrom" THEN _parse_from_import(node)
            ELSE <<>>
        IsClassDef(node) == node.t = "ClassDef"
        Class(node) == _parse_class(node, file_path)
        Function(node) == _parse_function(node, file_path, NONE)
    IN  IF parse.exc = "SyntaxError" THEN None
        ELSE IF parse.exc # NONE THEN Raised(parse.exc)
        ELSE Returned(
                [file_path |-> file_path, language |-> "python",
                 classes   |-> Map(Class, SelectSeq(walk(parse.tree), IsClassDef)),
                 functions |-> Map(Function, SelectSeq(walk(parse.tree), IsFunctionDef)),
                 imports   |-> Flatten(Map(ImportsOf, walk(parse.tree)))])

\* fault: a SyntaxError answered with an empty ParsedFile instead of None
parse_source_empty_on_error(source, file_path) ==
    LET parse == ast_parse(source)
        ImportsOf(node) ==
            IF node.t = "Import" THEN _parse_import(node)
            ELSE IF node.t = "ImportFrom" THEN _parse_from_import(node)
            ELSE <<>>
        IsClassDef(node) == node.t = "ClassDef"
        Class(node) == _parse_class(node, file_path)
        Function(node) == _parse_function(node, file_path, NONE)
    IN  IF parse.exc = "SyntaxError"
        THEN Returned([file_path |-> file_path, language |-> "python",
                       classes |-> <<>>, functions |-> <<>>, imports |-> <<>>])
        ELSE IF parse.exc # NONE THEN Raised(parse.exc)
        ELSE Returned(
                [file_path |-> file_path, language |-> "python",
                 classes   |-> Map(Class, SelectSeq(parse.tree.body, IsClassDef)),
                 functions |-> Map(Function, SelectSeq(parse.tree.body, IsFunctionDef)),
                 imports   |-> Flatten(Map(ImportsOf, walk(parse.tree)))])

parse_source(source, file_path) ==
    LET parse == ast_parse(source)
        ImportsOf(node) ==
            IF node.t = "Import" THEN _parse_import(node)
            ELSE IF node.t = "ImportFrom" THEN _parse_from_import(node)
            ELSE <<>>
        IsClassDef(node) == node.t = "ClassDef"
        Class(node) == _parse_class(node, file_path)
        Function(node) == _parse_function(node, file_path, NONE)
    IN  IF parse.exc = "SyntaxError" THEN None
        ELSE IF parse.exc # NONE THEN Raised(parse.exc)
        ELSE Returned(
                [file_path |-> file_path, language |-> "python",
                 classes   |-> Map(Class, SelectSeq(parse.tree.body, IsClassDef)),
                 functions |-> Map(Function, SelectSeq(parse.tree.body, IsFunctionDef)),
                 imports   |-> Flatten(Map(ImportsOf, walk(parse.tree)))])

\* parse_file on a Path whose file holds src
parse_file(file_path, src, fl) ==
    LET read == read_text(src)
        out  == IF read.exc # NONE THEN Raised(read.exc)
                ELSE parse_source(read.text, PathStr(absolute(file_path, fl), fl))
    IN  IF out.kind = "raised" /\ IsException(out.exc) THEN None ELSE out

(***************************************************************************)
(* CodeGraph                                                               *)
(***************************************************************************)
CodeNode(id, type, name, file_path, line_number, properties) ==
    [id |-> id, type |-> type, name |-> name, file_path |-> file_path,
     line_number |-> line_number, properties |-> properties]

CodeRelationship(source_id, target_id, type, properties) ==
    [source_id |-> source_id, target_id |-> target_id, type |-> type,
     properties |-> properties]

\* CodeGraph(): nodes is the dict as the sequence of its values in insertion
\* order, relationships the list
CodeGraph == [nodes |-> <<>>, relationships |-> <<>>]

NodeIds(g) == {g.nodes[i].id : i \in 1..Len(g.nodes)}

\* fault: an id already present keeps its first node (dict.setdefault)
add_node_keep_first(g, node) ==
    IF node.id \in NodeIds(g) THEN g
    ELSE [g EXCEPT !.nodes = Append(g.nodes, node)]

\* self.nodes[node.id] = node
add_node(g, node) ==
    IF node.id \in NodeIds(g)
    THEN [g EXCEPT !.nodes = [i \in 1..Len(g.nodes) |->
                                IF g.nodes[i].id = node.id THEN node
                                ELSE g.nodes[i]]]
    ELSE [g EXCEPT !.nodes = Append(g.nodes, node)]

\* fault: a relationship already in the list is not added again
add_relationship_once(g, rel) ==
    IF \E i \in 1..Len(g.relationships) : g.relationships[i] = rel THEN g
    ELSE [g EXCEPT !.relationships = Append(g.relationships, rel)]

\* self.relationships.append(rel)
add_relationship(g, rel) ==
    [g EXCEPT !.relationships = Append(g.relationships, rel)]

\* self.nodes.get(node_id)
get_node(g, node_id) ==
    IF node_id \in NodeIds(g)
    THEN g.nodes[CHOOSE i \in 1..Len(g.nodes) : g.nodes[i].id = node_id]
    ELSE NONE

(***************************************************************************)
(* RelationshipExtractor.  A handler is the sequence of the mutations it   *)
(* makes, in program order:                                                *)
(*   [op |-> "add_node", node]          self.graph.add_node(node)          *)
(*   [op |-> "add_relationship", rel]   self.graph.add_relationship(rel)   *)
(*   [op |-> "register", key, id]       self._function_registry[key] = id  *)
(***************************************************************************)
OpAddNode(node) == [op |-> "add_node", node |-> node]
OpAddRelationship(rel) == [op |-> "add_relationship", rel |-> rel]
OpRegister(key, id) == [op |-> "register", key |-> key, id |-> id]

\* the dict with reg[key] = id
SetItem(reg, key, id) ==
    [k \in DOMAIN reg \cup {key} |-> IF k = key THEN id ELSE reg[k]]

\* fault: the id built from str(path) instead of path.as_posix()
_make_file_id_native(file_path, fl) == "file:" \o file_path

_make_file_id(file_path, fl) == "file:" \o as_posix(PathOf(file_path, fl))

\* fault: the method's node named by method.name instead of qualified_name
MethodOps_bare_name(class_id, cls, method, parsed) ==
    LET method_id == class_id \o "." \o method.name
    IN  << OpAddNode(CodeNode(method_id, "function", method.name,
                              parsed.file_path, method.line_number,
                              [is_method |-> TRUE, class_name |-> cls.name])),
           OpRegister(method.name, method_id),
           OpRegister(qualified_name(method), method_id),
           OpAddRelationship(CodeRelationship(class_id, method_id, "CONTAINS", <<>>)) >>

\* lines 160-185: one method of a class
MethodOps(class_id, cls, method, parsed) ==
    LET method_id == class_id \o "." \o method.name
    IN  << OpAddNode(CodeNode(method_id, "function", qualified_name(method),
                              parsed.file_path, method.line_number,
                              [is_method |-> TRUE, class_name |-> cls.name])),
           OpRegister(method.name, method_id),
           OpRegister(qualified_name(method), method_id),
           OpAddRelationship(CodeRelationship(class_id, method_id, "CONTAINS", <<>>)) >>

\* lines 136-185: one class of a file
ClassOps(file_id, cls, parsed) ==
    LET class_id == file_id \o ":" \o cls.name
        Ops(method) == MethodOps(class_id, cls, method, parsed)
    IN  << OpAddNode(CodeNode(class_id, "class", cls.name, parsed.file_path,
                              cls.line_number,
                              [base_classes |-> cls.base_classes])),
           OpAddRelationship(CodeRelationship(file_id, class_id, "DECLARES",
                              [line_number |-> cls.line_number])) >>
        \o Flatten(Map(Ops, cls.methods))

\* lines 188-212: one standalone function of a file
FunctionOps(file_id, func, parsed) ==
    LET func_id == file_id \o ":" \o func.name
    IN  << OpAddNode(CodeNode(func_id, "function", func.name, parsed.file_path,
                              func.line_number, [is_method |-> FALSE])),
           OpRegister(func.name, func_id),
           OpAddRelationship(CodeRelationship(file_id, func_id, "DECLARES",
                              [line_number |-> func.line_number])) >>

\* fault: the standalone functions (lines 187-212) before the classes
_add_file_nodes_functions_first(parsed, fl) ==
    LET file_id == _make_file_id(parsed.file_path, fl)
        COps(cls) == ClassOps(file_id, cls, parsed)
        FOps(func) == FunctionOps(file_id, func, parsed)
    IN  << OpAddNode(CodeNode(file_id, "file",
                              PathName(PathOf(parsed.file_path, fl)),
                              parsed.file_path, 0,
                              [language |-> parsed.language])) >>
        \o Flatten(Map(FOps, parsed.functions))
        \o Flatten(Map(COps, parsed.classes))

_add_file_nodes(parsed, fl) ==
    LET file_id == _make_file_id(parsed.file_path, fl)
        COps(cls) == ClassOps(file_id, cls, parsed)
        FOps(func) == FunctionOps(file_id, func, parsed)
    IN  << OpAddNode(CodeNode(file_id, "file",
                              PathName(PathOf(parsed.file_path, fl)),
                              parsed.file_path, 0,
                              [language |-> parsed.language])) >>
        \o Flatten(Map(COps, parsed.classes))
        \o Flatten(Map(FOps, parsed.functions))

\* first node id of the file's methods, then of its functions, declared
\* under the node's name on the node's line
_find_function_id(node, file_id, parsed) ==
    LET OfClass(cls) ==
            LET Hit(method) == method.name = node.name
                               /\ method.line_number = node.lineno
                Id(method) == file_id \o ":" \o cls.name \o "." \o method.name
            IN  Map(Id, SelectSeq(cls.methods, Hit))
        FHit(func) == func.name = node.name /\ func.line_number = node.lineno
        FId(func) == file_id \o ":" \o func.name
        found == Flatten(Map(OfClass, parsed.classes))
                 \o Map(FId, SelectSeq(parsed.functions, FHit))
    IN  IF found = <<>> THEN NONE ELSE found[1]

\* fault: attribute-style calls give no name (lines 310-312 left out)
_get_call_name_direct_only(node) ==
    IF node.func.t = "Name" THEN node.func.id
    ELSE NONE

_get_call_name(node) ==
    IF node.func.t = "Name" THEN node.func.id
    ELSE IF node.func.t = "Attribute" THEN node.func.attr
    ELSE NONE

\* fault: _resolve_class without the search of all nodes (lines 324-327)
_resolve_class_local_only(g, class_name, current_file, fl) ==
    LET local_id == _make_file_id(current_file, fl) \o ":" \o class_name
    IN  IF local_id \in NodeIds(g) THEN local_id ELSE NONE

\* fault: the search of all nodes keeps the last match (no return at line 327)
_resolve_class_last_match(g, class_name, current_file, fl) ==
    LET local_id == _make_file_id(current_file, fl) \o ":" \o class_name
        IsNamed(node) == node.type = "class" /\ node.name = class_name
        hits == SelectSeq(g.nodes, IsNamed)
    IN  IF local_id \in NodeIds(g) THEN local_id
        ELSE IF hits # <<>> THEN hits[Len(hits)].id
        ELSE NONE

_resolve_class(g, class_name, current_file, fl) ==
    LET local_id == _make_file_id(current_file, fl) \o ":" \o class_name
        IsNamed(node) == node.type = "class" /\ node.name = class_name
        hits == SelectSeq(g.nodes, IsNamed)
    IN  IF local_id \in NodeIds(g) THEN local_id
        ELSE IF hits # <<>> THEN hits[1].id
        ELSE NONE

(***************************************************************************)
(* The loop iterations of _extract_relationships over one file, in program *)
(* order: an import entry, a (class, base) pair, a call expression inside  *)
(* a callable of the re-walked tree.                                       *)
(***************************************************************************)
ImportItems(parsed) ==
    [i \in 1..Len(parsed.imports) |-> [k |-> "import", imp |-> parsed.imports[i]]]

InheritItems(parsed, fl) ==
    LET file_id == _make_file_id(parsed.file_path, fl)
        OfClass(cls) ==
            [i \in 1..Len(cls.base_classes) |->
                [k |-> "inherit", class_id |-> file_id \o ":" \o cls.name,
                 base |-> cls.base_classes[i]]]
    IN  Flatten(Map(OfClass, parsed.classes))

\* _extract_calls up to the registry lookup; src is what the file holds when
\* it is read again
CallItems(parsed, src, fl) ==
    LET read  == read_text(src)
        parse == IF read.exc # NONE THEN read ELSE ast_parse(read.text)
        file_id == _make_file_id(parsed.file_path, fl)
        IsCall(child) == child.t = "Call"
        OfDef(node) ==
            LET source_func_id == _find_function_id(node, file_id, parsed)
                Item(child) ==
                    [k |-> "call", source_func_id |-> source_func_id,
                     target_name |-> _get_call_name(child),
                     lineno |-> child.lineno]
            IN  IF source_func_id = NONE THEN <<>>
                ELSE Map(Item, SelectSeq(walk(node), IsCall))
    IN  IF parse.exc # NONE THEN <<>>
        ELSE Flatten(Map(OfDef, SelectSeq(walk(parse.tree), IsFunctionDef)))

\* fault: the calls are extracted before the inheritance loop runs
_extract_relationships_calls_first(parsed, src, fl) ==
    ImportItems(parsed) \o CallItems(parsed, src, fl) \o InheritItems(parsed, fl)

_extract_relationships(parsed, src, fl) ==
    ImportItems(parsed) \o InheritItems(parsed, fl) \o CallItems(parsed, src, fl)

\* the mutations one loop iteration makes in graph g with registry reg
\* fault: the IMPORTS edge added only with a new Module node (line 231
\* indented into the `if` of line 223)
ImportOps_edge_once(g, item, parsed, fl) ==
    LET file_id == _make_file_id(parsed.file_path, fl)
        module_id == "module:" \o item.imp.module
    IN  IF module_id \notin NodeIds(g)
        THEN << OpAddNode(CodeNode(module_id, "module", item.imp.module, NONE, 0,
                                   [is_external |-> TRUE])),
                OpAddRelationship(CodeRelationship(file_id, module_id, "IMPORTS",
                                   [line_number |-> item.imp.line_number])) >>
        ELSE <<>>

\* fault: a module node gets an id that counts the nodes made before it
ImportOps_numbered(g, item, parsed, fl) ==
    LET file_id == _make_file_id(parsed.file_path, fl)
        known == {n \in Range(g.nodes) : n.type = "module" /\ n.name = item.imp.module}
        module_id == IF known # {} THEN (CHOOSE n \in known : TRUE).id
                     ELSE "module:" \o item.imp.module \o "#" \o ToString(Len(g.nodes))
    IN  (IF known = {}
         THEN << OpAddNode(CodeNode(module_id, "module", item.imp.module, NONE, 0,
                                    [is_external |-> TRUE])) >>
         ELSE <<>>)
        \o << OpAddRelationship(CodeRelationship(file_id, module_id, "IMPORTS",
                                    [line_number |-> item.imp.line_number])) >>

ImportOps(g, item, parsed, fl) ==
    LET file_id == _make_file_id(parsed.file_path, fl)
        module_id == "module:" \o item.imp.module
    IN  (IF module_id \notin NodeIds(g)
         THEN << OpAddNode(CodeNode(module_id, "module", item.imp.module, NONE, 0,
                                    [is_external |-> TRUE])) >>
         ELSE <<>>)
        \o << OpAddRelationship(CodeRelationship(file_id, module_id, "IMPORTS",
                                    [line_number |-> item.imp.line_number])) >>

\* fault: lines 244-250 without `if base_id`, the edge goes to the file-local
\* id whether or not a node has it
InheritOps_unresolved(g, item, parsed, fl) ==
    LET base_id == _resolve_class(g, item.base, parsed.file_path, fl)
    IN  << OpAddRelationship(CodeRelationship(
                item.class_id,
                IF base_id # NONE THEN base_id
                ELSE _make_file_id(parsed.file_path, fl) \o ":" \o item.base,
                "INHERITS_FROM", <<>>)) >>

\* fault: an unresolved base gets a Class node of its own in phase 2
InheritOps_placeholder(g, item, parsed, fl) ==
    LET base_id == _resolve_class(g, item.base, parsed.file_path, fl)
        local_id == _make_file_id(parsed.file_path, fl) \o ":" \o item.base
    IN  IF base_id # NONE
        THEN << OpAddRelationship(CodeRelationship(item.class_id, base_id,
                                    "INHERITS_FROM", <<>>)) >>
        ELSE << OpAddNode(CodeNode(local_id, "class", item.base, NONE, 0,
                                   [base_classes |-> <<>>])),
                OpAddRelationship(CodeRelationship(item.class_id, local_id,
                                    "INHERITS_FROM", <<>>)) >>

\* fault: a base counts only when its node was made before the subclass's
\* (what a single pass over the files would see)
InheritOps_backward_only(g, item, parsed, fl) ==
    LET base_id == _resolve_class(g, item.base, parsed.file_path, fl)
        At(id) == CHOOSE i \in 1..Len(g.nodes) : g.nodes[i].id = id
    IN  IF base_id # NONE /\ At(base_id) < At(item.class_id)
        THEN << OpAddRelationship(CodeRelationship(item.class_id, base_id,
                                    "INHERITS_FROM", <<>>)) >>
        ELSE <<>>

InheritOps(g, item, parsed, fl) ==
    LET base_id == _resolve_class(g, item.base, parsed.file_path, fl)
    IN  IF base_id # NONE
        THEN << OpAddRelationship(CodeRelationship(item.class_id, base_id,
                                    "INHERITS_FROM", <<>>)) >>
        ELSE <<>>

\* fault: line 278 without `target_id != source_func_id`
CallOps_self_calls(reg, item) ==
    LET target_id == IF item.target_name \in DOMAIN reg
                     THEN reg[item.target_name] ELSE NONE
    IN  IF item.target_name # NONE /\ target_id # NONE
        THEN << OpAddRelationship(CodeRelationship(item.source_func_id, target_id,
                                    "CALLS", [line_number |-> item.lineno])) >>
        ELSE <<>>

CallOps(reg, item) ==
    LET target_id == IF item.target_name \in DOMAIN reg
                     THEN reg[item.target_name] ELSE NONE
    IN  IF item.target_name # NONE /\ target_id # NONE
           /\ target_id # item.source_func_id
        THEN << OpAddRelationship(CodeRelationship(item.source_func_id, target_id,
                                    "CALLS", [line_number |-> item.lineno])) >>
        ELSE <<>>

ItemOps(g, reg, item, parsed, fl) ==
    CASE item.k = "import"  -> ImportOps(g, item, parsed, fl)
      [] item.k = "inherit" -> InheritOps(g, item, parsed, fl)
      [] item.k = "call"    -> CallOps(reg, item)

(***************************************************************************)
(* CodeScanner                                                             *)
(***************************************************************************)
DEFAULT_IGNORE_DIRS ==
    { ".git", ".svn", ".hg", "__pycache__", ".pytest_cache", ".mypy_cache",
      "node_modules", ".venv", "venv", "env", "dist", "build", ".tox", ".eggs",
      ".idea", ".vscode" }

default_extensions == {".py", ".js", ".ts", ".jsx", ".tsx"}

\* self.extensions: process_codebase builds CodeScanner(extensions=[".py"]),
\* a bare CodeScanner() takes the defaults
Extensions(operation) ==
    IF operation = "process_codebase" THEN {".py"} ELSE default_extensions

\* fault: only the immediate parent directory checked against ignore_dirs
Ignored_parent_only(path) ==
    Len(path) >= 2 /\ path[Len(path) - 1] \in DEFAULT_IGNORE_DIRS

\* any(ignored in path.parts for ignored in self.ignore_dirs)
\* fault: only the parts below the root are looked at
\* (path.relative_to(root).parts)
Ignored_below_root(path) ==
    \E ignored \in DEFAULT_IGNORE_DIRS :
        ignored \in Range(SubSeq(path, Len(root) + 1, Len(path)))

Ignored(path) == \E ignored \in DEFAULT_IGNORE_DIRS : ignored \in Range(path)

\* path.is_file() and path.suffix in self.extensions
Accepted(entry, path, operation) ==
    entry.kind = "file" /\ Suffix(path) \in Extensions(operation)

(***************************************************************************)
(* Directory trees                                                         *)
(***************************************************************************)
File(rel, src) == [rel |-> rel, kind |-> "file", src |-> src]
Dir(rel) == [rel |-> rel, kind |-> "dir", src |-> NONE]

Parents(rel) == {SubSeq(rel, 1, i) : i \in 1..(Len(rel) - 1)}

\* sources a codebase file can hold, and where codebase files can be
CodebaseSources == {"models", "sub", "clash", "order", "bad", "deep"}
Slots == { <<"a.py">>, <<"pkg", "b.py">>, <<"venv", "v.py">> }

\* tests/sample_codebase
SampleCodebase ==
    { File(<<"models.py">>, "sample_models"), File(<<"auth.py">>, "sample_auth") }

\* a tree in which a base name is a class of two files and of neither the
\* subclass's file nor the file where it is a function
SharedBaseCodebase ==
    { File(<<"a.py">>, "models"), Dir(<<"pkg">>), File(<<"pkg", "b.py">>, "models"),
      File(<<"d.py">>, "sub"), File(<<"auth.py">>, "clash") }

Codebases ==
    UNION { { {File(rel, f[rel]) : rel \in S}
              \cup {Dir(d) : d \in UNION {Parents(rel) : rel \in S}} :
              f \in [S -> CodebaseSources] } :
            S \in {T \in SUBSET Slots : Cardinality(T) <= MaxFiles} }

\* entries a scanned tree can have besides source files in plain directories
ScanEntries ==
    { File(<<"a.py">>, "empty"), Dir(<<"pkg">>), File(<<"pkg", "b.py">>, "empty"),
      Dir(<<"venv">>), File(<<"venv", "v.py">>, "empty"),
      Dir(<<"venv", "pkg">>), File(<<"venv", "pkg", "c.py">>, "empty"),
      Dir(<<"pkg", "__pycache__">>),
      File(<<"README.md">>, "empty"), File(<<"app.js">>, "empty"),
      Dir(<<"d.py">>) }

Trees ==
    { T \in SUBSET ScanEntries :
        /\ Cardinality(T) <= MaxEntries
        /\ \A e \in T : \A d \in Parents(e.rel) : Dir(d) \in T }

\* what the file at a Path holds
ContentAt(path) ==
    (CHOOSE e \in fs : absolute(root \o e.rel, flavour) = absolute(path, flavour)).src

(***************************************************************************)
(* State machine                                                           *)
(***************************************************************************)
Idle == [kind |-> "idle"]

\* RelationshipExtractor(): an empty graph and an empty registry; the locals
\* of the operations hold nothing yet
InitCommon ==
    /\ flavour \in {"posix", "nt"}
    /\ todo = {}
    /\ yielded = <<>>
    /\ cur = <<>>
    /\ parsed_files = <<>>
    /\ graph = CodeGraph
    /\ registry = <<>>
    /\ ops = <<>>
    /\ items = <<>>
    /\ phase2_idx = 0
    /\ result = Idle
    /\ calls = <<>>
    /\ store = Idle

\* files a scan can be given as its root
FileRoots(fl) ==
    { <<Anchor(fl), "repo", "a.py">>, <<Anchor(fl), "repo", "README.md">>,
      <<Anchor(fl), "venv", "v.py">> }

\* RelationshipExtractor().process_codebase(root)
InitProcessCodebase ==
    /\ InitCommon
    /\ cwd = <<Anchor(flavour), "home">>
    /\ op = "process_codebase"
    /\ \/ /\ root_kind = "dir"
          /\ root \in { <<Anchor(flavour), "repo">>, <<"repo">> }
          /\ fs \in Codebases \cup {SampleCodebase, SharedBaseCodebase}
       \/ /\ root_kind = "missing"
          /\ root \in { <<Anchor(flavour), "repo">>, <<"repo">> }
          /\ fs = {}
       \/ /\ root_kind = "file"
          /\ root = <<Anchor(flavour), "repo", "a.py">>
          /\ fs \in { {File(<<>>, src)} : src \in CodebaseSources }
    /\ pc = "start"

\* CodeScanner().scan_to_list(root)
InitScanToList ==
    /\ InitCommon
    /\ cwd \in WorkingDirs(flavour)
    /\ op = "scan_to_list"
    /\ \/ /\ root_kind = "dir"
          /\ root \in Roots(flavour)
          /\ fs \in Trees
       \/ /\ root_kind = "missing"
          /\ root \in Roots(flavour)
          /\ fs = {}
       \/ /\ root_kind = "file"
          /\ root \in FileRoots(flavour)
          /\ fs = {File(<<>>, "empty")}
    /\ pc = "start"

\* a direct call of a parser entry point
InitParse ==
    /\ InitCommon
    /\ cwd = <<Anchor(flavour), "home">>
    /\ op = "parse"
    /\ root_kind = "dir"
    /\ root = <<Anchor(flavour), "repo">>
    /\ fs = {}
    /\ pc = "call"

Init == InitProcessCodebase \/ InitScanToList \/ InitParse

\* what a call that ended left in the log
Returned_from(operation, ret) == [op |-> operation, ret |-> ret]

\* fault: a missing root taken for an empty directory
scan_not_found_as_empty ==
    /\ pc = "start"
    /\ root_kind = "missing"
    /\ todo' = {}
    /\ pc' = "scan"
    /\ UNCHANGED <<flavour, cwd, root, root_kind, fs, calls, store, op, yielded, cur,
                   parsed_files, graph, registry, ops, items, phase2_idx, result>>

\* scan, lines 63-64: the root does not exist.  The generator raises when
\* its consumer asks for the first path: list() in scan_to_list, the for
\* loop of line 98 in process_codebase, neither of which catches it
scan_not_found ==
    /\ pc = "start"
    /\ root_kind = "missing"
    /\ result' = Raised("FileNotFoundError")
    /\ calls' = IF op = "process_codebase"
                THEN Append(calls, Returned_from(op, Raised("FileNotFoundError")))
                ELSE calls
    /\ pc' = "raised"
    /\ UNCHANGED <<flavour, cwd, root, root_kind, fs, store, op, todo, yielded, cur,
                   parsed_files, graph, registry, ops, items, phase2_idx>>

\* scan, lines 66-69: the root is a file, yielded iff its suffix is accepted
scan_root_file ==
    /\ pc = "start"
    /\ root_kind = "file"
    /\ IF Suffix(root) \in Extensions(op)
       THEN /\ yielded' = Append(yielded, root)
            /\ IF op = "process_codebase"
               THEN cur' = root /\ pc' = "parse"
               ELSE cur' = cur /\ pc' = "scan"
       ELSE /\ pc' = "scan"
            /\ UNCHANGED <<yielded, cur>>
    /\ UNCHANGED <<flavour, cwd, root, root_kind, fs, calls, store, op, todo,
                   parsed_files, graph, registry, ops, items, phase2_idx, result>>

\* scan, lines 71-74: the root is a directory, rglob starts
scan_directory ==
    /\ pc = "start"
    /\ root_kind = "dir"
    /\ todo' = fs
    /\ pc' = "scan"
    /\ UNCHANGED <<flavour, cwd, root, root_kind, fs, calls, store, op, yielded, cur,
                   parsed_files, graph, registry, ops, items, phase2_idx, result>>

\* scan, lines 74-77: rglob produces a path with an ignored part
scan_skip_ignored ==
    /\ pc = "scan"
    /\ \E e \in todo :
        /\ Ignored(root \o e.rel)
        /\ todo' = todo \ {e}
    /\ UNCHANGED <<flavour, cwd, root, root_kind, fs, calls, store, op, pc, yielded, cur, parsed_files, graph,
                   registry, ops, items, phase2_idx, result>>

\* scan, line 79: the path is not a file with an accepted extension
scan_skip_other ==
    /\ pc = "scan"
    /\ \E e \in todo :
        /\ ~Ignored(root \o e.rel)
        /\ ~Accepted(e, root \o e.rel, op)
        /\ todo' = todo \ {e}
    /\ UNCHANGED <<flavour, cwd, root, root_kind, fs, calls, store, op, pc, yielded, cur, parsed_files, graph,
                   registry, ops, items, phase2_idx, result>>

\* scan, lines 79-82: the path is yielded; in process_codebase the loop body
\* of line 98 receives it
scan_yield ==
    /\ pc = "scan"
    /\ \E e \in todo :
        /\ ~Ignored(root \o e.rel)
        /\ Accepted(e, root \o e.rel, op)
        /\ todo' = todo \ {e}
        /\ yielded' = Append(yielded, root \o e.rel)
        /\ IF op = "process_codebase"
           THEN cur' = root \o e.rel /\ pc' = "parse"
           ELSE UNCHANGED <<cur, pc>>
    /\ UNCHANGED <<flavour, cwd, root, root_kind, fs, calls, store, op, parsed_files, graph, registry, ops,
                   items, phase2_idx, result>>

\* scan, line 84: rglob is exhausted; process_codebase goes on to line 105
scan_complete ==
    /\ pc = "scan"
    /\ todo = {}
    /\ IF op = "process_codebase"
       THEN pc' = "phase2" /\ phase2_idx' = 1
       ELSE pc' = "done" /\ UNCHANGED phase2_idx
    /\ UNCHANGED <<flavour, cwd, root, root_kind, fs, calls, store, op, todo, yielded, cur, parsed_files, graph,
                   registry, ops, items, result>>

\* fault: the imports of a file resolved as soon as its nodes are added
\* (_extract_relationships called inside the loop of line 98)
parse_yielded_imports_at_once ==
    /\ pc = "parse"
    /\ result' = parse_file(cur, ContentAt(cur), flavour)
    /\ IF result'.kind = "ParsedFile"
       THEN /\ parsed_files' = Append(parsed_files, result'.value)
            /\ ops' = LET Ops(item) == ImportOps(graph, item, result'.value, flavour)
                      IN  _add_file_nodes(result'.value, flavour)
                            \o Flatten(Map(Ops, ImportItems(result'.value)))
            /\ pc' = "add"
       ELSE /\ pc' = "scan"
            /\ UNCHANGED <<parsed_files, ops>>
    /\ UNCHANGED <<flavour, cwd, root, root_kind, fs, calls, store, op, todo, yielded, cur, graph, registry,
                   items, phase2_idx>>

\* process_codebase, lines 99-102 up to the call of _add_file_nodes
parse_yielded ==
    /\ pc = "parse"
    /\ result' = parse_file(cur, ContentAt(cur), flavour)
    /\ IF result'.kind = "ParsedFile"
       THEN /\ parsed_files' = Append(parsed_files, result'.value)
            /\ ops' = _add_file_nodes(result'.value, flavour)
            /\ pc' = "add"
       ELSE /\ pc' = "scan"
            /\ UNCHANGED <<parsed_files, ops>>
    /\ UNCHANGED <<flavour, cwd, root, root_kind, fs, calls, store, op, todo, yielded, cur, graph, registry,
                   items, phase2_idx>>

\* where the handler is after its mutation: _add_file_nodes returns to the
\* scan loop after its last one
AfterOp ==
    IF Tail(ops) # <<>> THEN pc
    ELSE IF pc = "add" THEN "scan"
    ELSE IF pc = "add_file" THEN "file_return"
    ELSE pc

do_add_node ==
    /\ pc \in {"add", "add_file", "extract"}
    /\ ops # <<>>
    /\ Head(ops).op = "add_node"
    /\ graph' = add_node(graph, Head(ops).node)
    /\ ops' = Tail(ops)
    /\ pc' = AfterOp
    /\ UNCHANGED <<flavour, cwd, root, root_kind, fs, calls, store, op, todo, yielded, cur, parsed_files,
                   registry, items, phase2_idx, result>>

do_add_relationship ==
    /\ pc \in {"add", "add_file", "extract"}
    /\ ops # <<>>
    /\ Head(ops).op = "add_relationship"
    /\ graph' = add_relationship(graph, Head(ops).rel)
    /\ ops' = Tail(ops)
    /\ pc' = AfterOp
    /\ UNCHANGED <<flavour, cwd, root, root_kind, fs, calls, store, op, todo, yielded, cur, parsed_files,
                   registry, items, phase2_idx, result>>

do_register ==
    /\ pc \in {"add", "add_file", "extract"}
    /\ ops # <<>>
    /\ Head(ops).op = "register"
    /\ registry' = SetItem(registry, Head(ops).key, Head(ops).id)
    /\ ops' = Tail(ops)
    /\ pc' = AfterOp
    /\ UNCHANGED <<flavour, cwd, root, root_kind, fs, calls, store, op, todo, yielded, cur, parsed_files,
                   graph, items, phase2_idx, result>>

\* process_codebase, lines 105-106: the next parsed file enters
\* _extract_relationships
extract_begin ==
    /\ pc = "phase2"
    /\ phase2_idx <= Len(parsed_files)
    /\ LET parsed == parsed_files[phase2_idx]
       IN  items' = _extract_relationships(
                        parsed, ContentAt(PathOf(parsed.file_path, flavour)),
                        flavour)
    /\ pc' = "extract"
    /\ UNCHANGED <<flavour, cwd, root, root_kind, fs, calls, store, op, todo, yielded, cur, parsed_files, graph,
                   registry, ops, phase2_idx, result>>

\* one loop iteration of _extract_relationships / _extract_calls decides
\* its mutations
extract_item ==
    /\ pc = "extract"
    /\ ops = <<>>
    /\ items # <<>>
    /\ ops' = ItemOps(graph, registry, Head(items), parsed_files[phase2_idx],
                      flavour)
    /\ items' = Tail(items)
    /\ UNCHANGED <<flavour, cwd, root, root_kind, fs, calls, store, op, pc, todo, yielded, cur, parsed_files,
                   graph, registry, phase2_idx, result>>

\* _extract_relationships returns
extract_end ==
    /\ pc = "extract"
    /\ ops = <<>>
    /\ items = <<>>
    /\ phase2_idx' = phase2_idx + 1
    /\ pc' = "phase2"
    /\ UNCHANGED <<flavour, cwd, root, root_kind, fs, calls, store, op, todo, yielded, cur, parsed_files, graph,
                   registry, ops, items, result>>

\* process_codebase, line 113: return self.graph
process_codebase_return ==
    /\ pc = "phase2"
    /\ phase2_idx > Len(parsed_files)
    /\ calls' = Append(calls, Returned_from("process_codebase", graph))
    /\ pc' = "done"
    /\ UNCHANGED <<flavour, cwd, root, root_kind, fs, store, op, todo, yielded, cur,
                   parsed_files, graph, registry, ops, items, phase2_idx, result>>

\* one call of a parser entry point, the text it was given and what came back
ParserCall(operation, source, ret) == [op |-> operation, arg |-> source, ret |-> ret]

\* PythonParser().parse_source(source)
call_parse_source ==
    /\ pc = "call"
    /\ \E source \in SourceKeys \ {"locked"} :
        /\ result' = parse_source(source, "<string>")
        /\ calls' = Append(calls, ParserCall("parse_source", source, result'))
    /\ pc' = "done"
    /\ UNCHANGED <<flavour, cwd, root, root_kind, fs, store, op, todo, yielded, cur,
                   parsed_files, graph, registry, ops, items, phase2_idx>>

\* PythonParser().parse_file(path) on a file holding src
call_parse_file ==
    /\ pc = "call"
    /\ \E src \in SourceKeys :
        /\ result' = parse_file(root \o <<"a.py">>, src, flavour)
        /\ calls' = Append(calls, ParserCall("parse_file", src, result'))
    /\ pc' = "done"
    /\ UNCHANGED <<flavour, cwd, root, root_kind, fs, store, op, todo, yielded, cur,
                   parsed_files, graph, registry, ops, items, phase2_idx>>

Next ==
    \/ scan_not_found
    \/ scan_root_file
    \/ scan_directory
    \/ scan_skip_ignored
    \/ scan_skip_other
    \/ scan_yield
    \/ scan_complete
    \/ parse_yielded
    \/ do_add_node
    \/ do_add_relationship
    \/ do_register
    \/ extract_begin
    \/ extract_item
    \/ extract_end
    \/ process_codebase_return
    \/ call_parse_source
    \/ call_parse_file

Spec == Init /\ [][Next]_vars

(***************************************************************************)
(* Several calls in one process: an extractor is an object whose graph     *)
(* and registry live as long as it does                                    *)
(***************************************************************************)
\* most process_codebase / process_file calls in one session
MaxCalls == 3

NumCalls ==
    Cardinality({i \in 1..Len(calls) :
                    calls[i].op \in {"process_codebase", "process_file"}})

\* the trees of a session
SessionCodebases ==
    { { File(<<"a.py">>, "models"), Dir(<<"pkg">>), File(<<"pkg", "b.py">>, "sub") },
      { File(<<"a.py">>, "clash") },
      { File(<<"a.py">>, "bad"), Dir(<<"pkg">>), File(<<"pkg", "b.py">>, "models") },
      { File(<<"a.py">>, "models"), Dir(<<"venv">>), File(<<"venv", "v.py">>, "sub") } }

InitSession ==
    /\ InitProcessCodebase
    /\ flavour = "posix"
    /\ root_kind = "dir"
    /\ root = <<Anchor(flavour), "repo">>
    /\ fs \in SessionCodebases

\* fault: the graph is shared by all extractors (a class attribute)
new_extractor_shared_graph ==
    /\ pc = "done"
    /\ op \in {"process_codebase", "process_file"}
    /\ NumCalls < MaxCalls
    /\ registry' = <<>>
    /\ calls' = Append(calls, Returned_from("RelationshipExtractor", None))
    /\ pc' = "idle"
    /\ UNCHANGED <<flavour, cwd, root, root_kind, fs, store, op, todo, yielded, cur,
                   parsed_files, graph, ops, items, phase2_idx, result>>

\* extractor = RelationshipExtractor(), as ingest_codebase does before each
\* process_codebase
new_extractor ==
    /\ pc = "done"
    /\ op \in {"process_codebase", "process_file"}
    /\ NumCalls < MaxCalls
    /\ graph' = CodeGraph
    /\ registry' = <<>>
    /\ calls' = Append(calls, Returned_from("RelationshipExtractor", None))
    /\ pc' = "idle"
    /\ UNCHANGED <<flavour, cwd, root, root_kind, fs, store, op, todo, yielded, cur,
                   parsed_files, ops, items, phase2_idx, result>>

\* extractor.process_codebase(root) on the extractor at hand: lines 92-96,
\* new locals, self.graph and self._function_registry as they are
process_codebase_again ==
    /\ pc \in {"done", "idle"}
    /\ op \in {"process_codebase", "process_file"}
    /\ NumCalls < MaxCalls
    /\ op' = "process_codebase"
    /\ todo' = {}
    /\ yielded' = <<>>
    /\ cur' = <<>>
    /\ parsed_files' = <<>>
    /\ phase2_idx' = 0
    /\ result' = Idle
    /\ pc' = "start"
    /\ UNCHANGED <<flavour, cwd, root, root_kind, fs, calls, store, graph, registry,
                   ops, items>>

\* fault: process_file also resolves the file's imports
process_file_with_imports ==
    /\ pc \in {"done", "idle"}
    /\ op \in {"process_codebase", "process_file"}
    /\ NumCalls < MaxCalls
    /\ op' = "process_file"
    /\ \E e \in {f \in fs : f.kind = "file"} :
        /\ cur' = root \o e.rel
        /\ result' = parse_file(root \o e.rel, e.src, flavour)
    /\ IF result'.kind = "ParsedFile"
       THEN /\ ops' = LET Ops(item) == ImportOps(graph, item, result'.value, flavour)
                      IN  _add_file_nodes(result'.value, flavour)
                            \o Flatten(Map(Ops, ImportItems(result'.value)))
            /\ pc' = "add_file"
       ELSE /\ ops' = <<>>
            /\ pc' = "file_return"
    /\ todo' = {}
    /\ yielded' = <<>>
    /\ parsed_files' = <<>>
    /\ phase2_idx' = 0
    /\ UNCHANGED <<flavour, cwd, root, root_kind, fs, calls, store, graph, registry,
                   items>>

\* extractor.process_file(path) on a file of the tree: lines 117-119
process_file ==
    /\ pc \in {"done", "idle"}
    /\ op \in {"process_codebase", "process_file"}
    /\ NumCalls < MaxCalls
    /\ op' = "process_file"
    /\ \E e \in {f \in fs : f.kind = "file"} :
        /\ cur' = root \o e.rel
        /\ result' = parse_file(root \o e.rel, e.src, flavour)
    /\ IF result'.kind = "ParsedFile"
       THEN /\ ops' = _add_file_nodes(result'.value, flavour)
            /\ pc' = "add_file"
       ELSE /\ ops' = <<>>
            /\ pc' = "file_return"
    /\ todo' = {}
    /\ yielded' = <<>>
    /\ parsed_files' = <<>>
    /\ phase2_idx' = 0
    /\ UNCHANGED <<flavour, cwd, root, root_kind, fs, calls, store, graph, registry,
                   items>>

\* process_file, line 120: return parsed
process_file_return ==
    /\ pc = "file_return"
    /\ calls' = Append(calls, Returned_from("process_file", result))
    /\ pc' = "done"
    /\ UNCHANGED <<flavour, cwd, root, root_kind, fs, store, op, todo, yielded, cur,
                   parsed_files, graph, registry, ops, items, phase2_idx, result>>

NextSession ==
    \/ scan_directory
    \/ scan_skip_ignored
    \/ scan_skip_other
    \/ scan_yield
    \/ scan_complete
    \/ parse_yielded
    \/ do_add_node
    \/ do_add_relationship
    \/ do_register
    \/ extract_begin
    \/ extract_item
    \/ extract_end
    \/ process_codebase_return
    \/ new_extractor
    \/ process_codebase_again
    \/ process_file
    \/ process_file_return

SpecSession == InitSession /\ [][NextSession]_vars

(***************************************************************************)
(* CodeGraph used directly, as tests/test_extractor.py does: any sequence  *)
(* of add_node, add_relationship and get_node calls on one graph           *)
(***************************************************************************)
\* most calls made on the graph
MaxGraphCalls == 4

\* nodes and relationships handed to the graph: two ids, two nodes for each
GraphNodes ==
    { CodeNode(id, "function", name, NONE, 0, <<>>) :
        id \in {"test:node", "test:other"}, name \in {"test_function", "renamed"} }

GraphRelationships ==
    { CodeRelationship("test:node", "test:other", "CALLS", <<>>),
      CodeRelationship("test:other", "test:node", "IMPORTS", <<>>) }

GraphIds == {"test:node", "test:other", "test:absent"}

\* one call on the graph, its argument and what it returned
GraphCall(operation, arg, ret) == [op |-> operation, arg |-> arg, ret |-> ret]

\* graph = CodeGraph()
InitGraph ==
    /\ InitCommon
    /\ cwd = <<Anchor(flavour), "home">>
    /\ flavour = "posix"
    /\ op = "graph"
    /\ root_kind = "dir"
    /\ root = <<Anchor(flavour), "repo">>
    /\ fs = {}
    /\ pc = "api"

\* graph.add_node(node)
call_add_node ==
    /\ pc = "api"
    /\ Len(calls) < MaxGraphCalls
    /\ \E node \in GraphNodes :
        /\ graph' = add_node(graph, node)
        /\ calls' = Append(calls, GraphCall("add_node", node, NONE))
    /\ UNCHANGED <<flavour, cwd, root, root_kind, fs, store, op, pc, todo, yielded, cur,
                   parsed_files, registry, ops, items, phase2_idx, result>>

\* graph.add_relationship(rel)
call_add_relationship ==
    /\ pc = "api"
    /\ Len(calls) < MaxGraphCalls
    /\ \E rel \in GraphRelationships :
        /\ graph' = add_relationship(graph, rel)
        /\ calls' = Append(calls, GraphCall("add_relationship", rel, NONE))
    /\ UNCHANGED <<flavour, cwd, root, root_kind, fs, store, op, pc, todo, yielded, cur,
                   parsed_files, registry, ops, items, phase2_idx, result>>

\* graph.get_node(node_id)
call_get_node ==
    /\ pc = "api"
    /\ Len(calls) < MaxGraphCalls
    /\ \E node_id \in GraphIds :
        calls' = Append(calls, GraphCall("get_node", node_id, get_node(graph, node_id)))
    /\ UNCHANGED <<flavour, cwd, root, root_kind, fs, store, op, pc, todo, yielded, cur,
                   parsed_files, graph, registry, ops, items, phase2_idx, result>>

NextGraph == call_add_node \/ call_add_relationship \/ call_get_node

SpecGraph == InitGraph /\ [][NextGraph]_vars

(***************************************************************************)
(* VectorStore.index_graph                                                 *)
(***************************************************************************)
\* most nodes, and most relationships, of a graph handed to a store
MaxIndexed == 2

\* the 500 of properties.get("docstring", "")[:500]
DocstringLimit == 500

RECURSIVE Repeat(_, _)
Repeat(s, n) ==
    IF n = 0 THEN ""
    ELSE IF n = 1 THEN s
    ELSE Repeat(s, n \div 2) \o Repeat(s, n - n \div 2)

\* a docstring of n characters that differ from their neighbours
DocstringOf(n) == SubSeq(Repeat("0123456789", n \div 10 + 1), 1, n)

\* s[:n]
SliceTo(s, n) == SubSeq(s, 1, IF Len(s) < n THEN Len(s) ELSE n)

\* str.title() of a node type
title(type) ==
    CASE type = "function" -> "Function"
      [] type = "class" -> "Class"
      [] type = "file" -> "File"
      [] type = "module" -> "Module"

\* node.properties.get(key, "")
properties_get(node, key) ==
    IF key \in DOMAIN node.properties THEN node.properties[key] ELSE ""

\* the nodes a caller may hand to the store: as the extractor builds them
\* (docstring always a str) and as built by hand (no docstring, docstring None)
VectorNodes ==
    { CodeNode("a.py:short", "function", "short", "a.py", 1,
               [docstring |-> DocstringOf(DocstringLimit - 1), signature |-> "def short()"]),
      CodeNode("a.py:Exact", "class", "Exact", "a.py", 3,
               [docstring |-> DocstringOf(DocstringLimit), base_classes |-> <<>>]),
      CodeNode("a.py:long", "function", "long", "a.py", 9,
               [docstring |-> DocstringOf(DocstringLimit + 1), signature |-> "def long(x)"]),
      CodeNode("a.py:Longer", "class", "Longer", "a.py", 14,
               [docstring |-> DocstringOf(2 * DocstringLimit), base_classes |-> <<>>]),
      CodeNode("a.py:bare", "function", "bare", "a.py", 20,
               [docstring |-> "", signature |-> "def bare()"]),
      CodeNode("test:node", "function", "test_function", NONE, 0,
               [is_method |-> FALSE]),
      CodeNode("test:none", "function", "undocumented", NONE, 0,
               [docstring |-> NONE]),
      CodeNode("a.py", "file", "a.py", "a.py", 0,
               [language |-> "python", docstring |-> DocstringOf(DocstringLimit + 1)]),
      CodeNode("module:os", "module", "os", NONE, 0, [external |-> TRUE]) }

\* the lists of at most n nodes of pool, no id twice (the values of a dict)
NodeLists(pool, n) ==
    UNION { { s \in [1..k -> pool] :
                \A i, j \in 1..k : i < j => s[i].id # s[j].id } : k \in 0..n }

\* VectorStore._build_document_text(node)
_build_document_text(node) ==
    LET docstring == properties_get(node, "docstring")
        signature == properties_get(node, "signature")
    IN  Join(<<"# " \o title(node.type) \o ": " \o node.name>>
                \o (IF docstring \notin {"", NONE} THEN <<"# " \o docstring>> ELSE <<>>)
                \o (IF signature # "" THEN <<signature>> ELSE <<>>)
                \o (IF node.file_path # NONE THEN <<"# File: " \o node.file_path>>
                    ELSE <<>>),
             "\n")

\* fault: the metadata carries the whole docstring
Metadata_whole_docstring(node) ==
    [node_id |-> node.id, type |-> node.type, name |-> node.name,
     file_path |-> IF node.file_path = NONE THEN "" ELSE node.file_path,
     line_number |-> node.line_number,
     docstring |-> properties_get(node, "docstring")]

\* the dict appended to metadatas for a node; a line_number of None is 0 in
\* every CodeNode of the model, which is what `node.line_number or 0` gives
Metadata(node) ==
    [node_id |-> node.id, type |-> node.type, name |-> node.name,
     file_path |-> IF node.file_path = NONE THEN "" ELSE node.file_path,
     line_number |-> node.line_number,
     docstring |-> SliceTo(properties_get(node, "docstring"), DocstringLimit)]

\* VectorStore.index_graph(graph) on a store whose collection holds the
\* entries of vs.collection; the embeddings, which the embedder computes from
\* the documents alone, are left out of the entries
index_graph(vs, g) ==
    LET IsIndexed(node) == node.type \in {"function", "class"}
        indexed == SelectSeq(g.nodes, IsIndexed)
        Entry(node) ==
            [id |-> node.id, document |-> _build_document_text(node),
             metadata |-> Metadata(node)]
        NoneSliced(node) == properties_get(node, "docstring") = NONE
    IN  IF SelectSeq(indexed, NoneSliced) # <<>>
        THEN [store |-> vs, ret |-> Raised("TypeError")]
        ELSE IF indexed = <<>> THEN [store |-> vs, ret |-> 0]
        ELSE [store |-> [vs EXCEPT !.collection = vs.collection \o Map(Entry, indexed)],
              ret |-> Len(indexed)]

\* the state before a call on a store: the caller holds graph, the store is st
InitStore(graphs, st) ==
    /\ flavour = "posix"
    /\ cwd = <<Anchor(flavour), "home">>
    /\ root_kind = "dir"
    /\ root = <<Anchor(flavour), "repo">>
    /\ fs = {}
    /\ todo = {}
    /\ yielded = <<>>
    /\ cur = <<>>
    /\ parsed_files = <<>>
    /\ graph \in graphs
    /\ registry = <<>>
    /\ ops = <<>>
    /\ items = <<>>
    /\ phase2_idx = 0
    /\ result = Idle
    /\ calls = <<>>
    /\ store = st
    /\ pc = "call"

\* a VectorStore over an empty collection
VectorStore == [kind |-> "VectorStore", collection |-> <<>>]

\* graph = CodeGraph() filled by the caller; vector_store = VectorStore()
InitVectorStore ==
    /\ op = "vector_index"
    /\ InitStore({[nodes |-> nodes, relationships |-> <<>>] :
                    nodes \in NodeLists(VectorNodes, MaxIndexed)}, VectorStore)

\* what index_graph gave back
IndexCall(operation, ret) == [op |-> operation, ret |-> ret]

\* vector_store.index_graph(graph)
call_vector_index_graph ==
    /\ pc = "call"
    /\ op = "vector_index"
    /\ LET out == index_graph(store, graph)
       IN  /\ store' = out.store
           /\ calls' = Append(calls, IndexCall("index_graph", out.ret))
    /\ pc' = "done"
    /\ UNCHANGED <<flavour, cwd, root, root_kind, fs, op, todo, yielded, cur, parsed_files,
                   graph, registry, ops, items, phase2_idx, result>>

NextVectorStore == call_vector_index_graph

SpecVectorStore == InitVectorStore /\ [][NextVectorStore]_vars

(***************************************************************************)
(* GraphStore.index_graph                                                  *)
(***************************************************************************)
\* how one session.run(query, params) ends: it returns, the driver raises an
\* Exception, or a BaseException (Ctrl-C) arrives while it waits
RunOutcomes == {"ok", "ServiceUnavailable", "KeyboardInterrupt"}

StoreNodes ==
    { CodeNode("a.py", "file", "a.py", "a.py", 0, [language |-> "python"]),
      CodeNode("a.py:User", "class", "User", "a.py", 3,
               [base_classes |-> <<>>, docstring |-> "A user."]),
      CodeNode("a.py:login", "function", "login", "a.py", 9,
               [is_method |-> FALSE, docstring |-> ""]) }

StoreRelationships ==
    { CodeRelationship("a.py", "a.py:User", "CONTAINS", <<>>),
      CodeRelationship("a.py:login", "a.py:User", "CALLS", [line_number |-> 10]) }

\* the lists of at most n relationships of pool
RelationshipLists(pool, n) == UNION {[1..k -> pool] : k \in 0..n}

\* GraphStore._type_to_label(node_type)
_type_to_label(node_type) ==
    CASE node_type = "file" -> "File"
      [] node_type = "class" -> "Class"
      [] node_type = "function" -> "Function"
      [] node_type = "module" -> "Module"
      [] OTHER -> "Unknown"

\* what a _create_* call leaves behind: the statement it ran and how run ended
Created(run, value) == [run |-> run, kind |-> "bool", value |-> value]
Propagated(run, exc) == [run |-> run, kind |-> "raised", exc |-> exc]

\* fault: session.run outside the try, every failure leaves _create_node
_create_node_uncaught(node, outcome) ==
    LET run == [what |-> "node", label |-> _type_to_label(node.type),
                item |-> node, outcome |-> outcome]
    IN  IF outcome = "ok" THEN Created(run, TRUE)
        ELSE Propagated(run, outcome)

\* GraphStore._create_node(session, node) when session.run ends in outcome
_create_node(node, outcome) ==
    LET run == [what |-> "node", label |-> _type_to_label(node.type),
                item |-> node, outcome |-> outcome]
    IN  IF outcome = "ok" THEN Created(run, TRUE)
        ELSE IF IsException(outcome) THEN Created(run, FALSE)
        ELSE Propagated(run, outcome)

\* GraphStore._create_relationship(session, rel) when session.run ends in
\* outcome; rel.type is the value of the RelationType member
_create_relationship(rel, outcome) ==
    LET run == [what |-> "relationship", label |-> rel.type,
                item |-> rel, outcome |-> outcome]
    IN  IF outcome = "ok" THEN Created(run, TRUE)
        ELSE IF IsException(outcome) THEN Created(run, FALSE)
        ELSE Propagated(run, outcome)

\* a connected GraphStore; run is what its sessions were asked to run, the
\* rest the locals of index_graph
GraphStore ==
    [kind |-> "GraphStore", run |-> <<>>, nodes_created |-> 0, rels_created |-> 0]

\* graph_store = GraphStore(); graph_store.connect(); graph_store.clear()
InitGraphStore ==
    /\ op = "graph_index"
    /\ InitStore({[nodes |-> nodes, relationships |-> relationships] :
                    nodes \in NodeLists(StoreNodes, MaxIndexed),
                    relationships \in RelationshipLists(StoreRelationships, MaxIndexed)},
                 GraphStore)

\* where index_graph stands after n statements were run
LoopAt(n) ==
    IF n < Len(graph.nodes) THEN "nodes"
    ELSE IF n < Len(graph.nodes) + Len(graph.relationships) THEN "relationships"
    ELSE "return"

\* graph_store.index_graph(graph): nodes_created = 0; rels_created = 0
call_graph_index_graph ==
    /\ pc = "call"
    /\ op = "graph_index"
    /\ pc' = LoopAt(0)
    /\ UNCHANGED <<flavour, cwd, root, root_kind, fs, calls, store, op, todo, yielded, cur,
                   parsed_files, graph, registry, ops, items, phase2_idx, result>>

\* the locals and the position after a _create_* call returned or raised
AfterCreate(out, counter) ==
    /\ store' = [store EXCEPT !.run = Append(@, out.run),
                              ![counter] = IF out.kind = "bool" /\ out.value
                                           THEN @ + 1 ELSE @]
    /\ IF out.kind = "raised"
       THEN /\ calls' = Append(calls, IndexCall("index_graph", Raised(out.exc)))
            /\ pc' = "done"
       ELSE /\ calls' = calls
            /\ pc' = LoopAt(Len(store.run) + 1)

\* for node_id, node in graph.nodes.items(): one iteration
create_node_iteration ==
    /\ pc = "nodes"
    /\ \E outcome \in RunOutcomes :
        AfterCreate(_create_node(graph.nodes[Len(store.run) + 1], outcome),
                    "nodes_created")
    /\ UNCHANGED <<flavour, cwd, root, root_kind, fs, op, todo, yielded, cur, parsed_files,
                   graph, registry, ops, items, phase2_idx, result>>

\* for rel in graph.relationships: one iteration
create_relationship_iteration ==
    /\ pc = "relationships"
    /\ \E outcome \in RunOutcomes :
        AfterCreate(_create_relationship(
                        graph.relationships[Len(store.run) - Len(graph.nodes) + 1],
                        outcome),
                    "rels_created")
    /\ UNCHANGED <<flavour, cwd, root, root_kind, fs, op, todo, yielded, cur, parsed_files,
                   graph, registry, ops, items, phase2_idx, result>>

\* return nodes_created, rels_created
graph_index_return ==
    /\ pc = "return"
    /\ calls' = Append(calls,
            IndexCall("index_graph",
                      [kind |-> "tuple",
                       value |-> <<store.nodes_created, store.rels_created>>]))
    /\ pc' = "done"
    /\ UNCHANGED <<flavour, cwd, root, root_kind, fs, store, op, todo, yielded, cur,
                   parsed_files, graph, registry, ops, items, phase2_idx, result>>

NextGraphStore ==
    \/ call_graph_index_graph
    \/ create_node_iteration
    \/ create_relationship_iteration
    \/ graph_index_return

SpecGraphStore == InitGraphStore /\ [][NextGraphStore]_vars

(***************************************************************************)
(* Vocabulary of the properties                                            *)
(***************************************************************************)
Finished == op = "process_codebase" /\ pc = "done"

Rels == Range(graph.relationships)
RelsOfType(type) == {r \in Rels : r.type = type}
NodesOfType(type) == {n \in Range(graph.nodes) : n.type = type}

RECURSIVE Sum(_)
Sum(s) == IF s = <<>> THEN 0 ELSE Head(s) + Sum(Tail(s))

FileIdOf(parsed) == _make_file_id(parsed.file_path, flavour)

\* the entities phase 1 discovers in one parsed file: the file, its classes,
\* their methods, its standalone functions
EntitiesIn(parsed) ==
    LET Methods(cls) == Len(cls.methods)
    IN  1 + Len(parsed.classes) + Sum(Map(Methods, parsed.classes))
          + Len(parsed.functions)

\* the dotted module names the parsed files import
ImportedModules ==
    UNION { {p.imports[i].module : i \in 1..Len(p.imports)} : p \in Range(parsed_files) }

\* the names the top-level class and function definitions of the parsed files bind,
\* one entry per definition
TopLevelNames ==
    LET CName(cls) == cls.name
        FName(func) == func.name
        Of(parsed) == Map(CName, parsed.classes) \o Map(FName, parsed.functions)
    IN  Flatten(Map(Of, parsed_files))

DefinedOnce(name) ==
    Cardinality({i \in 1..Len(TopLevelNames) : TopLevelNames[i] = name}) = 1

(***************************************************************************)
(* C1: after process_codebase every entity discovered in phase 1 (file,    *)
(* class, method, standalone function) or phase 2 (external module) has    *)
(* its own node: the number of nodes is the number of entities, no two     *)
(* entities share a node id.                                               *)
(***************************************************************************)
C1_NodePerEntity ==
    Finished =>
        Len(graph.nodes) =
            Sum(Map(EntitiesIn, parsed_files)) + Cardinality(ImportedModules)

(***************************************************************************)
(* C2: when a class Sub of one file names a base Base that is defined once *)
(* in the codebase, as a class of another file, the finished graph has the *)
(* edge INHERITS_FROM Sub -> Base, whichever of the two files was scanned  *)
(* first.                                                                  *)
(***************************************************************************)
\* class c of parsed file i names a base defined once, as class d of file j
CrossFileBase(i, c, j, d) ==
    /\ i # j
    /\ parsed_files[i].file_path # parsed_files[j].file_path
    /\ parsed_files[j].classes[d].name
         \in Range(parsed_files[i].classes[c].base_classes)
    /\ DefinedOnce(parsed_files[j].classes[d].name)

InheritsEdge(i, c, j, d) ==
    CodeRelationship(
        FileIdOf(parsed_files[i]) \o ":" \o parsed_files[i].classes[c].name,
        FileIdOf(parsed_files[j]) \o ":" \o parsed_files[j].classes[d].name,
        "INHERITS_FROM", <<>>)

C2_InheritanceAnyOrder ==
    Finished =>
        \A i, j \in 1..Len(parsed_files) :
            \A c \in 1..Len(parsed_files[i].classes) :
                \A d \in 1..Len(parsed_files[j].classes) :
                    CrossFileBase(i, c, j, d) => InheritsEdge(i, c, j, d) \in Rels

\* the subclass's file was scanned before the superclass's file
C2_Witness ==
    /\ Finished
    /\ \E i, j \in 1..Len(parsed_files) :
        /\ i < j
        /\ \E c \in 1..Len(parsed_files[i].classes) :
            \E d \in 1..Len(parsed_files[j].classes) :
                CrossFileBase(i, c, j, d) /\ InheritsEdge(i, c, j, d) \in Rels

(***************************************************************************)
(* C3: no CALLS relationship has the same node as source and target; a     *)
(* callable that calls itself gets no CALLS edge to itself.                *)
(***************************************************************************)
C3_NoSelfCall ==
    \A r \in RelsOfType("CALLS") : r.source_id # r.target_id

\* a call whose name the registry resolves to the calling function has been
\* through _extract_calls
C3_Witness ==
    /\ Finished
    /\ \E p \in Range(parsed_files) :
        \E item \in Range(CallItems(p, ContentAt(PathOf(p.file_path, flavour)), flavour)) :
            /\ item.target_name \in DOMAIN registry
            /\ registry[item.target_name] = item.source_func_id
    /\ RelsOfType("CALLS") # {}

(***************************************************************************)
(* C4: in every state during and after process_codebase, the source_id and *)
(* the target_id of every relationship are keys of graph.nodes.            *)
(***************************************************************************)
C4_NoDanglingEdge ==
    \A r \in Rels : r.source_id \in NodeIds(graph) /\ r.target_id \in NodeIds(graph)

\* every kind of edge the extractor creates is in the graph
C4_Witness ==
    /\ Finished
    /\ \A type \in {"DECLARES", "CONTAINS", "IMPORTS", "INHERITS_FROM", "CALLS"} :
        RelsOfType(type) # {}

(***************************************************************************)
(* process_codebase as a function of the files the scan yields, in the     *)
(* order it yields them; each file is [path, src].                         *)
(***************************************************************************)
ApplyOp(st, o) ==
    CASE o.op = "add_node" ->
            [st EXCEPT !.graph = add_node(st.graph, o.node)]
      [] o.op = "add_relationship" ->
            [st EXCEPT !.graph = add_relationship(st.graph, o.rel)]
      [] o.op = "register" ->
            [st EXCEPT !.registry = SetItem(st.registry, o.key, o.id)]

\* a value compared with itself: TRUE, and the value is computed where the
\* comparison stands (each step of a fold before the next one starts)
Computed(v) == v = v

RECURSIVE ApplyOps(_, _)
ApplyOps(st, os) ==
    IF os = <<>> THEN st
    ELSE LET next == ApplyOp(st, Head(os))
         IN  IF Computed(next) THEN ApplyOps(next, Tail(os)) ELSE st

\* lines 98-102
RECURSIVE FirstPass(_, _, _)
FirstPass(st, files, fl) ==
    IF files = <<>> THEN st
    ELSE LET parsed == parse_file(Head(files).path, Head(files).src, fl)
             next == IF parsed.kind = "ParsedFile"
                     THEN [ApplyOps(st, _add_file_nodes(parsed.value, fl))
                             EXCEPT !.parsed_files =
                                Append(@, [parsed |-> parsed.value,
                                           src |-> Head(files).src])]
                     ELSE st
         IN  IF Computed(next) THEN FirstPass(next, Tail(files), fl) ELSE st

\* the loops of _extract_relationships and _extract_calls over one file
RECURSIVE ExtractItems(_, _, _, _)
ExtractItems(st, its, parsed, fl) ==
    IF its = <<>> THEN st
    ELSE LET next == ApplyOps(st, ItemOps(st.graph, st.registry, Head(its),
                                          parsed, fl))
         IN  IF Computed(next) THEN ExtractItems(next, Tail(its), parsed, fl)
             ELSE st

\* lines 105-106
RECURSIVE SecondPass(_, _, _)
SecondPass(st, todo_, fl) ==
    IF todo_ = <<>> THEN st
    ELSE LET next == ExtractItems(st,
                        _extract_relationships(Head(todo_).parsed,
                                               Head(todo_).src, fl),
                        Head(todo_).parsed, fl)
         IN  IF Computed(next) THEN SecondPass(next, Tail(todo_), fl) ELSE st

process_codebase(files, fl) ==
    LET first == FirstPass([graph |-> CodeGraph, registry |-> <<>>,
                            parsed_files |-> <<>>], files, fl)
        second == SecondPass(first, first.parsed_files, fl)
    IN  [graph |-> second.graph, registry |-> second.registry]

(***************************************************************************)
(* C5: a file with a syntax error is answered with None by the parser and  *)
(* adds no node, registry entry or relationship: process_codebase ends     *)
(* with the graph and registry it builds when that file is not there.      *)
(***************************************************************************)
HasSyntaxError(path) == ast_parse(ContentAt(path)).exc = "SyntaxError"
ParsesWell(path) == ~HasSyntaxError(path)
AsFile(path) == [path |-> path, src |-> ContentAt(path)]

C5_SyntaxErrorFileSkipped ==
    /\ (op = "process_codebase" /\ pc = "scan" /\ cur # <<>> /\ HasSyntaxError(cur))
            => result = None
    /\ Finished =>
            [graph |-> graph, registry |-> registry]
                = process_codebase(Map(AsFile, SelectSeq(yielded, ParsesWell)), flavour)

\* a file with a syntax error was scanned before a file that parses
C5_Witness ==
    /\ Finished
    /\ Len(yielded) >= 2
    /\ HasSyntaxError(yielded[1])
    /\ \E p \in Range(parsed_files) : Len(p.classes) > 0
    /\ Len(graph.relationships) > 0

(***************************************************************************)
(* C6: both parser entry points, parse_file and parse_source, return a     *)
(* ParsedFile or None on every input and never raise.                      *)
(***************************************************************************)
C6_ParserNeverRaises ==
    (op = "parse" /\ pc = "done") => result.kind \in {"ParsedFile", "None"}

(***************************************************************************)
(* C7: the finished graph has exactly one Module node, of id               *)
(* module:<name>, for every imported module name, and one IMPORTS edge per *)
(* import entry: a module imported from two files has one node and two     *)
(* IMPORTS edges.                                                          *)
(***************************************************************************)
\* number of i with P(s[i])
Count(s, P(_)) == Cardinality({i \in 1..Len(s) : P(s[i])})

ImportEdgesOf(file_id, module) ==
    LET Is(r) == r.type = "IMPORTS" /\ r.source_id = file_id
                 /\ r.target_id = "module:" \o module
    IN  Count(graph.relationships, Is)

ImportEntriesOf(file_id, module) ==
    LET Entries(parsed) ==
            LET Is(imp) == imp.module = module
            IN  IF FileIdOf(parsed) = file_id THEN Count(parsed.imports, Is) ELSE 0
    IN  Sum(Map(Entries, parsed_files))

C7_OneModuleNodeManyEdges ==
    Finished =>
        /\ \A m \in ImportedModules :
            /\ Cardinality({n \in NodesOfType("module") : n.name = m}) = 1
            /\ \E n \in NodesOfType("module") : n.name = m /\ n.id = "module:" \o m
            /\ \A p \in Range(parsed_files) :
                ImportEdgesOf(FileIdOf(p), m) = ImportEntriesOf(FileIdOf(p), m)
        /\ Cardinality(NodesOfType("module")) = Cardinality(ImportedModules)

\* two files import the same module
C7_Witness ==
    /\ Finished
    /\ \E p, q \in Range(parsed_files) : \E m \in ImportedModules :
        /\ FileIdOf(p) # FileIdOf(q)
        /\ ImportEdgesOf(FileIdOf(p), m) >= 1
        /\ ImportEdgesOf(FileIdOf(q), m) >= 1
        /\ Cardinality({n \in NodesOfType("module") : n.name = m}) = 1

(***************************************************************************)
(* C8: every node id follows the id scheme of its type:                    *)
(*   file      file:<absolute-posix-path>                                  *)
(*   class     <file-id>:<ClassName>                                       *)
(*   method    <class-id>.<method-name>                                    *)
(*   function  <file-id>:<function-name>                                   *)
(*   module    module:<dotted-module-name>                                 *)
(***************************************************************************)
\* the absolute path of a yielded file, written with "/"
PosixPaths == { as_posix(absolute(yielded[i], flavour)) : i \in 1..Len(yielded) }

\* <file-id> of the file the node was found in
FileIdPart(n) ==
    "file:" \o as_posix(absolute(
        CHOOSE path \in Range(yielded) :
            PathStr(absolute(path, flavour), flavour) = n.file_path,
        flavour))

MethodNames ==
    UNION { UNION { {c.methods[i].name : i \in 1..Len(c.methods)} :
                    c \in Range(p.classes) } : p \in Range(parsed_files) }

FollowsScheme(n) ==
    CASE n.type = "file" ->
            /\ \E path \in PosixPaths : n.id = "file:" \o path
            /\ n.id = FileIdPart(n)
      [] n.type = "class" ->
            n.id = FileIdPart(n) \o ":" \o n.name
      [] n.type = "function" /\ n.properties.is_method ->
            \E m \in MethodNames :
                n.id = (FileIdPart(n) \o ":" \o n.properties.class_name) \o "." \o m
      [] n.type = "function" /\ ~n.properties.is_method ->
            n.id = FileIdPart(n) \o ":" \o n.name
      [] n.type = "module" ->
            n.id = "module:" \o n.name /\ n.name \in ImportedModules
      [] OTHER -> FALSE

C8_IdScheme == \A n \in Range(graph.nodes) : FollowsScheme(n)

\* nodes of all four types, built on a host whose separator is not "/" from
\* a root given as a relative path
C8_Witness ==
    /\ Finished
    /\ flavour = "nt"
    /\ ~IsAbsolute(root)
    /\ \A type \in {"file", "class", "function", "module"} : NodesOfType(type) # {}
    /\ \E n \in NodesOfType("function") : n.properties.is_method

(***************************************************************************)
(* C9: the Function node of a method carries the unqualified method name   *)
(* as its name; Class.method is a registry key only.                       *)
(***************************************************************************)
\* the methods of the parsed files as [id, name, qualified]
ParsedMethods ==
    UNION { UNION { { [id |-> ((FileIdOf(p) \o ":" \o c.name) \o "." \o c.methods[i].name),
                       name |-> c.methods[i].name,
                       qualified |-> c.name \o "." \o c.methods[i].name] :
                      i \in 1..Len(c.methods) } :
                    c \in Range(p.classes) } : p \in Range(parsed_files) }

C9_MethodNodeNameUnqualified ==
    \A m \in ParsedMethods :
        \A n \in Range(graph.nodes) : n.id = m.id => n.name = m.name

\* C9 as amended: the Function node of a method carries the qualified name
\* Class.method, the string it is also registered under; the node of a
\* standalone function carries the bare function name.
C9_MethodNodeNameQualified ==
    /\ \A m \in ParsedMethods :
        \A n \in Range(graph.nodes) :
            n.id = m.id =>
                /\ n.name = m.qualified
                /\ n.name # m.name
                /\ (Finished => (m.qualified \in DOMAIN registry /\ m.name \in DOMAIN registry))
    /\ \A n \in NodesOfType("function") :
        ~n.properties.is_method => n.id = FileIdPart(n) \o ":" \o n.name

C9_Witness ==
    \E m \in ParsedMethods :
        \E n \in Range(graph.nodes) :
            n.id = m.id /\ n.properties.is_method /\ m.qualified \in DOMAIN registry

(***************************************************************************)
(* C10: a scan of a directory yields exactly the files below it whose      *)
(* extension is accepted and whose path has no part that is an ignored     *)
(* directory name, at any depth, each once.                                *)
(***************************************************************************)
ExpectedFiles ==
    { root \o e.rel :
        e \in { f \in fs :
                  /\ f.kind = "file"
                  /\ Suffix(f.rel) \in Extensions(op)
                  /\ \A i \in 1..Len(root \o f.rel) :
                        (root \o f.rel)[i] \notin DEFAULT_IGNORE_DIRS } }

ScanFinished ==
    /\ op \in {"scan_to_list", "process_codebase"}
    /\ pc \notin {"start", "scan", "parse", "add"}

C10_ScanYieldsExactly ==
    root_kind = "dir" =>
        /\ Range(yielded) \subseteq ExpectedFiles
        /\ Cardinality(Range(yielded)) = Len(yielded)
        /\ ScanFinished => Range(yielded) = ExpectedFiles

\* a finished scan that yielded a file and passed over a file two levels
\* below an ignored directory
C10_Witness ==
    /\ op = "scan_to_list" /\ pc = "done"
    /\ yielded # <<>>
    /\ \E e \in fs :
        /\ e.kind = "file"
        /\ Len(e.rel) = 3
        /\ e.rel[1] \in DEFAULT_IGNORE_DIRS
        /\ e.rel[2] \notin DEFAULT_IGNORE_DIRS
        /\ root \o e.rel \notin Range(yielded)

(***************************************************************************)
(* C11: a scan of a root that does not exist fails with FileNotFoundError  *)
(* and yields no file; process_codebase on such a root ends with that      *)
(* error, propagated to the caller, and with no node, no registry entry    *)
(* and no relationship added.                                              *)
(***************************************************************************)
C11_MissingRootFails ==
    root_kind = "missing" =>
        /\ pc \in {"start", "raised"}
        /\ yielded = <<>>
        /\ parsed_files = <<>>
        /\ graph = CodeGraph
        /\ registry = <<>>
        /\ pc = "raised" =>
            /\ result = Raised("FileNotFoundError")
            /\ op = "process_codebase" =>
                calls = <<Returned_from("process_codebase", Raised("FileNotFoundError"))>>

C11_Witness ==
    /\ root_kind = "missing"
    /\ op = "process_codebase"
    /\ pc = "raised"
    /\ result = Raised("FileNotFoundError")

(***************************************************************************)
(* C12 and C13 speak of several calls; they are checked under SpecSession. *)
(***************************************************************************)
\* a process_codebase call has returned and nothing was called since
ProcessCodebaseReturned ==
    /\ op = "process_codebase"
    /\ pc = "done"
    /\ calls # <<>>
    /\ calls[Len(calls)].op = "process_codebase"

\* the call whose return is entry i of the log was the first on its extractor
FirstOnExtractor(i) == i = 1 \/ calls[i - 1].op = "RelationshipExtractor"

\* what one call builds from the files its scan yielded, on its own
BuiltFromScan == process_codebase(Map(AsFile, yielded), flavour)

(***************************************************************************)
(* C12, as stated: the graph a process_codebase call returns holds only    *)
(* the nodes and relationships derived from that call's scan, whatever     *)
(* process_codebase or process_file calls came earlier.                    *)
(***************************************************************************)
C12_NothingCarriedOver ==
    ProcessCodebaseReturned => graph = BuiltFromScan.graph

(***************************************************************************)
(* C12, amended: the graph returned by the first call made on a newly      *)
(* constructed RelationshipExtractor (what each ingestion does) holds only *)
(* the nodes and relationships derived from that call's scan, and the      *)
(* registry only its callables, whatever other extractors did before.      *)
(***************************************************************************)
C12_FreshExtractorFromScratch ==
    (ProcessCodebaseReturned /\ FirstOnExtractor(Len(calls))) =>
        /\ graph = BuiltFromScan.graph
        /\ registry = BuiltFromScan.registry
        /\ calls[Len(calls)].ret = graph

\* a second ingestion, by a new extractor, after one that built a graph
C12_Witness ==
    /\ ProcessCodebaseReturned
    /\ Len(calls) >= 3
    /\ FirstOnExtractor(Len(calls))
    /\ calls[1].op = "process_codebase"
    /\ Len(calls[1].ret.relationships) > 0
    /\ Len(graph.relationships) > 0

(***************************************************************************)
(* C13: two process_codebase runs over the same files return graphs with   *)
(* the same set of node ids (the keys of graph.nodes), in whatever order   *)
(* each scan met the files; the runs compared are those on an extractor    *)
(* that process_file was not called on before.                             *)
(***************************************************************************)
ProcessCodebaseRuns ==
    { i \in 1..Len(calls) :
        /\ calls[i].op = "process_codebase"
        /\ \A k \in 1..(i - 1) :
              calls[k].op = "process_file" =>
                \E m \in (k + 1)..(i - 1) : calls[m].op = "RelationshipExtractor" }

ClassNodesNamed(name) == {n \in NodesOfType("class") : n.name = name}

C14_SampleCodebaseGraph ==
    (Finished /\ fs = SampleCodebase) =>
        /\ Cardinality(NodesOfType("file")) >= 2
        /\ \A name \in {"BaseRepository", "UserRepository", "User"} :
                ClassNodesNamed(name) # {}
        /\ \E r \in RelsOfType("INHERITS_FROM") :
                /\ r.source_id \in {n.id : n \in ClassNodesNamed("UserRepository")}
                /\ r.target_id \in {n.id : n \in ClassNodesNamed("BaseRepository")}
        /\ \E r \in RelsOfType("IMPORTS") :
                /\ \E n \in NodesOfType("file") :
                        n.name = "auth.py" /\ n.id = r.source_id
                /\ \E n \in NodesOfType("module") :
                        n.name = "models" /\ n.id = r.target_id
        /\ Cardinality({i \in 1..Len(graph.relationships) :
                            graph.relationships[i].type = "DECLARES"}) >= 3

\* the sample was processed, auth.py met before models.py
C14_Witness ==
    /\ Finished
    /\ fs = SampleCodebase
    /\ Len(yielded) = 2
    /\ PathName(yielded[1]) = "auth.py"
    /\ Len(graph.nodes) > 2

(***************************************************************************)
(* C15: add_relationship always appends.  After any calls on a graph its   *)
(* relationships are the arguments of the add_relationship calls, one      *)
(* entry per call, in the order of the calls: each call adds exactly one   *)
(* entry at the end, earlier entries stay where they are, and a triple     *)
(* handed over n times is there n times.                                   *)
(***************************************************************************)
ArgsOf(operation) ==
    LET Is(c) == c.op = operation
        Arg(c) == c.arg
    IN  Map(Arg, SelectSeq(calls, Is))

C15_RelationshipsAppendOnly == graph.relationships = ArgsOf("add_relationship")

\* the same relationship added twice with another one between
C15_Witness ==
    /\ op = "graph"
    /\ Len(graph.relationships) = 3
    /\ graph.relationships[1] = graph.relationships[3]
    /\ graph.relationships[1] # graph.relationships[2]

(***************************************************************************)
(* C16: add_node stores the node under its id: afterwards the id is a key  *)
(* and leads to that node; a node that had the id before is replaced and   *)
(* the number of keys stays; all other nodes and all relationships are as  *)
(* before.  get_node returns the node stored under a present id and None   *)
(* for an absent id, and changes nothing.                                  *)
(***************************************************************************)
NodesWithId(g, node_id) == {i \in 1..Len(g.nodes) : g.nodes[i].id = node_id}

C16_AddNodeGetNode ==
    [][ Len(calls') = Len(calls) + 1 =>
          LET c == calls'[Len(calls')]
          IN  CASE c.op = "add_node" ->
                    /\ \E i \in 1..Len(graph'.nodes) :
                            /\ graph'.nodes[i] = c.arg
                            /\ NodesWithId(graph', c.arg.id) = {i}
                    /\ NodeIds(graph') = NodeIds(graph) \cup {c.arg.id}
                    /\ Len(graph'.nodes) =
                            IF c.arg.id \in NodeIds(graph) THEN Len(graph.nodes)
                            ELSE Len(graph.nodes) + 1
                    /\ \A i \in 1..Len(graph.nodes) :
                            graph.nodes[i].id # c.arg.id =>
                                graph'.nodes[i] = graph.nodes[i]
                    /\ graph'.relationships = graph.relationships
                [] c.op = "get_node" ->
                    /\ graph' = graph
                    /\ IF c.arg \in NodeIds(graph)
                       THEN \E i \in 1..Len(graph.nodes) :
                                graph.nodes[i].id = c.arg /\ c.ret = graph.nodes[i]
                       ELSE c.ret = NONE
                [] OTHER -> TRUE ]_vars

\* a node was replaced by another with its id while a second node and a
\* relationship were in the graph, and both a present and an absent id were
\* looked up
C16_Witness ==
    /\ op = "graph"
    /\ \E i, j \in 1..Len(calls) :
        /\ i < j
        /\ calls[i].op = "add_node" /\ calls[j].op = "add_node"
        /\ calls[i].arg.id = calls[j].arg.id
        /\ calls[i].arg # calls[j].arg
        /\ get_node(graph, calls[j].arg.id) = calls[j].arg
    /\ \E k \in 1..Len(calls) : calls[k].op = "get_node"

(***************************************************************************)
(* C17  FunctionInfo.parameters lists the names of all declared parameters *)
(* of the callable, whatever their kind (positional-only, positional,      *)
(* *args, keyword-only, **kwargs), in declaration order.                   *)
(***************************************************************************)
\* the names between the parentheses of a def statement, left to right
DeclaredParameters(a) ==
    a.posonlyargs \o a.args
        \o (IF a.vararg = NONE THEN <<>> ELSE <<a.vararg>>)
        \o a.kwonlyargs
        \o (IF a.kwarg = NONE THEN <<>> ELSE <<a.kwarg>>)

\* the parser calls so far that gave back a ParsedFile
ParsedCalls ==
    { i \in 1..Len(calls) :
        /\ calls[i].op \in {"parse_source", "parse_file"}
        /\ calls[i].ret.kind = "ParsedFile" }

\* every def statement of the text, wherever it stands
DefsOf(source) == SelectSeq(walk(ast_parse(source).tree), IsFunctionDef)

\* every FunctionInfo of a ParsedFile: its functions and its classes' methods
InfosOf(parsed) ==
    LET MethodsOf(class) == class.methods
    IN  parsed.functions \o Flatten(Map(MethodsOf, parsed.classes))

C17_ParametersAllDeclared ==
    \A i \in ParsedCalls :
        \A info \in Range(InfosOf(calls[i].ret.value)) :
            \E def \in Range(DefsOf(calls[i].arg)) :
                /\ def.name = info.name
                /\ def.lineno = info.line_number
                /\ info.parameters = DeclaredParameters(def.args)

(***************************************************************************)
(* C18  parse_source reports as functions exactly the top-level callables  *)
(* and as classes exactly the top-level class definitions of the module,   *)
(* each list in source order; each class's methods are exactly its         *)
(* directly nested callables in source order; callables and classes nested *)
(* inside functions, methods, nested classes or control-flow blocks are in *)
(* none of these lists.                                                    *)
(***************************************************************************)
\* the statements standing directly in the body of node that satisfy Is
DirectlyIn(node, Is(_)) == {n \in Range(iter_child_nodes(node)) : Is(n)}

IsClassStatement(node) == node.t = "ClassDef"
IsDefinition(node) == IsFunctionDef(node) \/ IsClassStatement(node)

\* a list of FunctionInfo or ClassInfo names exactly the statements of defs,
\* one entry each, from the top of the text to its bottom
ListsExactly(infos, defs) ==
    /\ \A i \in 1..Len(infos) :
            \E d \in defs : d.name = infos[i].name /\ d.lineno = infos[i].line_number
    /\ \A d \in defs :
            \E i \in 1..Len(infos) :
                d.name = infos[i].name /\ d.lineno = infos[i].line_number
    /\ \A i, j \in 1..Len(infos) :
            i < j => infos[i].line_number < infos[j].line_number

\* the lines of every definition the ParsedFile lists anywhere
ListedLines(parsed) ==
    {info.line_number : info \in Range(InfosOf(parsed)) \cup Range(parsed.classes)}

\* the definitions of the text that stand neither at the top level nor, for a
\* callable, directly in a top-level class
NestedDefinitions(tree) ==
    LET top_classes == DirectlyIn(tree, IsClassStatement)
        listed == DirectlyIn(tree, IsDefinition)
                    \cup UNION {DirectlyIn(c, IsFunctionDef) : c \in top_classes}
    IN  {n \in Range(walk(tree)) : IsDefinition(n)} \ listed

C18_TopLevelDefinitionsOnly ==
    \A k \in ParsedCalls :
        LET parsed == calls[k].ret.value
            tree == ast_parse(calls[k].arg).tree
        IN  /\ ListsExactly(parsed.functions, DirectlyIn(tree, IsFunctionDef))
            /\ ListsExactly(parsed.classes, DirectlyIn(tree, IsClassStatement))
            /\ \A i \in 1..Len(parsed.classes) :
                    \E c \in DirectlyIn(tree, IsClassStatement) :
                        /\ c.lineno = parsed.classes[i].line_number
                        /\ ListsExactly(parsed.classes[i].methods,
                                        DirectlyIn(c, IsFunctionDef))
            /\ \A n \in NestedDefinitions(tree) : n.lineno \notin ListedLines(parsed)

\* a text was parsed that has callables and classes at the top level, in a
\* top-level class, and nested in a function, a method, a nested class and an
\* if block; two functions, one class and its two methods were reported
C18_Witness ==
    \E k \in ParsedCalls :
        LET parsed == calls[k].ret.value
            tree == ast_parse(calls[k].arg).tree
            Names(infos) == [i \in 1..Len(infos) |-> infos[i].name]
        IN  /\ Names(parsed.functions) = <<"f", "g">>
            /\ Names(parsed.classes) = <<"K">>
            /\ Names(parsed.classes[1].methods) = <<"m", "am">>
            /\ {n.name : n \in NestedDefinitions(tree)}
                    = {"nested", "Inner", "deep", "Nested", "n", "cond", "CondClass"}

(***************************************************************************)
(* C19  In the vector-index metadata the docstring stored for each indexed *)
(* node is the first 500 characters of the node's docstring: the docstring *)
(* itself when it has at most 500 characters, exactly 500 characters when  *)
(* it is longer.                                                           *)
(***************************************************************************)
\* the docstring of the node of the caller's graph an entry of the collection
\* was made from, the empty text when the node has none
NodeDocstring(entry) ==
    LET node == get_node(graph, entry.id)
    IN  IF "docstring" \in DOMAIN node.properties THEN node.properties.docstring
        ELSE ""

\* text begins with prefix
StartsWith(text, prefix) ==
    /\ Len(prefix) <= Len(text)
    /\ \A i \in 1..Len(prefix) : SubSeq(text, i, i) = SubSeq(prefix, i, i)

C19_DocstringFirst500 ==
    \A k \in 1..Len(store.collection) :
        LET stored == store.collection[k].metadata.docstring
            docstring == NodeDocstring(store.collection[k])
        IN  /\ StartsWith(docstring, stored)
            /\ Len(docstring) <= 500 => stored = docstring
            /\ Len(docstring) > 500 => Len(stored) = 500

\* one call indexed a node whose docstring is longer than 500 characters and
\* a node whose docstring has exactly 500
C19_Witness ==
    /\ op = "vector_index"
    /\ pc = "done"
    /\ \E j, k \in 1..Len(store.collection) :
        /\ Len(NodeDocstring(store.collection[j])) > 500
        /\ Len(store.collection[j].metadata.docstring) = 500
        /\ Len(NodeDocstring(store.collection[k])) = 500
        /\ store.collection[k].metadata.docstring = NodeDocstring(store.collection[k])

(***************************************************************************)
(* C20  In GraphStore.index_graph a write failure on one node or           *)
(* relationship is counted as not created and never aborts the run: every  *)
(* node and then every relationship of the graph is still attempted, and   *)
(* the returned (nodes_created, relationships_created) are the numbers of  *)
(* node writes and of relationship writes that did not raise.              *)
(***************************************************************************)
\* everything index_graph has to write, in the order it has to
ToWrite == graph.nodes \o graph.relationships

\* the writes of one kind that did not raise
WritesDone(what) ==
    Cardinality({k \in 1..Len(store.run) :
                    store.run[k].what = what /\ store.run[k].outcome = "ok"})

\* the writes the driver failed with an Exception
WritesFailed ==
    {k \in 1..Len(store.run) : IsException(store.run[k].outcome)}

C20_WriteFailureCountedNotFatal ==
    op = "graph_index" =>
        /\ Len(store.run) <= Len(ToWrite)
        /\ \A k \in 1..Len(store.run) :
                /\ store.run[k].item = ToWrite[k]
                /\ store.run[k].what =
                        IF k <= Len(graph.nodes) THEN "node" ELSE "relationship"
        /\ \A k \in WritesFailed :
                k < Len(ToWrite) => Len(store.run) > k \/ pc \in {"nodes", "relationships"}
        /\ pc = "done" =>
                LET ret == calls[Len(calls)].ret
                IN  IF ret.kind = "raised"
                    THEN ~IsException(ret.exc)
                    ELSE /\ Len(store.run) = Len(ToWrite)
                         /\ ret.value = <<WritesDone("node"), WritesDone("relationship")>>

\* index_graph returned after a node write and a relationship write had
\* failed, each followed by a write that succeeded
C20_Witness ==
    /\ op = "graph_index"
    /\ pc = "done"
    /\ calls[Len(calls)].ret.kind = "tuple"
    /\ \E i, j \in WritesFailed :
        /\ store.run[i].what = "node"
        /\ store.run[j].what = "relationship"
        /\ store.run[i + 1].outcome = "ok"
        /\ j < Len(store.run) /\ store.run[j + 1].outcome = "ok"
    /\ calls[Len(calls)].ret.value = <<1, 1>>

(***************************************************************************)
(* C21  In process_codebase, phase-2 relationship resolution               *)
(* (_extract_relationships) does not begin for any file until phase-1 node *)
(* construction (_add_file_nodes) has completed for every successfully     *)
(* parsed file, so every phase-2 lookup sees the complete node set and     *)
(* registry.                                                               *)
(***************************************************************************)
\* what phase 1 builds from the files the scan has yielded so far
PhaseOne ==
    FirstPass([graph |-> CodeGraph, registry |-> <<>>, parsed_files |-> <<>>],
              Map(AsFile, yielded), flavour)

\* the relationship types and the node type only phase 2 creates
PhaseTwoTypes == {"IMPORTS", "INHERITS_FROM", "CALLS"}

IsPrefix(s, t) == Len(s) <= Len(t) /\ SubSeq(t, 1, Len(s)) = s

C21_PhaseTwoAfterAllOfPhaseOne ==
    op = "process_codebase" =>
        /\ pc \in {"start", "scan", "parse", "add"} =>
                /\ phase2_idx = 0
                /\ items = <<>>
                /\ \A r \in Rels : r.type \notin PhaseTwoTypes
                /\ NodesOfType("module") = {}
        /\ pc \in {"phase2", "extract"} =>
                /\ todo = {}
                /\ root_kind = "dir" => Range(yielded) = ExpectedFiles
                /\ Len(parsed_files) = Len(PhaseOne.parsed_files)
                /\ registry = PhaseOne.registry
                /\ Range(PhaseOne.graph.nodes) \subseteq Range(graph.nodes)
                /\ IsPrefix(PhaseOne.graph.relationships, graph.relationships)

\* the first file is in phase 2 and about to get an edge to a node of the
\* file scanned after it
C21_Witness ==
    /\ op = "process_codebase"
    /\ pc = "extract"
    /\ phase2_idx = 1
    /\ Len(parsed_files) = 2
    /\ ops # <<>>
    /\ Head(ops).op = "add_relationship"
    /\ Head(ops).rel.type \in {"INHERITS_FROM", "CALLS"}
    /\ get_node(graph, Head(ops).rel.target_id).file_path = parsed_files[2].file_path

(***************************************************************************)
(* C22  For every call expression inside the body of a top-level function  *)
(* or method, exactly one CALLS edge caller -> target tagged with the call *)
(* site's line is added if and only if the invoked name (the direct name,  *)
(* or for attribute-style calls only the trailing attribute, whatever the  *)
(* receiver) is a key of the registry and the registered id differs from   *)
(* the caller's id; an unresolved name, or a resolution to the caller      *)
(* itself, adds nothing.                                                   *)
(***************************************************************************)
\* the call expressions below a definition, one entry per expression
CallsIn(def) ==
    LET IsCall(n) == n.t = "Call"
    IN  SelectSeq(walk(def), IsCall)

\* the name a call expression invokes, NONE when it has none
InvokedName(call) ==
    CASE call.func.t = "Name" -> call.func.id
      [] call.func.t = "Attribute" -> call.func.attr
      [] OTHER -> NONE

\* the edges the claim grants the call expressions of one callable
EdgesOfCaller(caller_id, def) ==
    LET Edge(call) ==
            LET name == InvokedName(call)
            IN  IF name \in DOMAIN registry /\ registry[name] # caller_id
                THEN << CodeRelationship(caller_id, registry[name], "CALLS",
                                         [line_number |-> call.lineno]) >>
                ELSE <<>>
    IN  Flatten(Map(Edge, CallsIn(def)))

\* the top-level functions and the methods of the top-level classes of a
\* parsed file, each with its node id and the names it is known by; the
\* methods class by class from the top of the text, then the functions
CallersOf(parsed) ==
    LET tree == ast_parse(ContentAt(PathOf(parsed.file_path, flavour))).tree
        file_id == FileIdOf(parsed)
        IsFunction(n) == IsFunctionDef(n)
        IsClass(n) == n.t = "ClassDef"
        Function(def) ==
            [id |-> file_id \o ":" \o def.name, def |-> def, keys |-> <<def.name>>]
        MethodsOf(class) ==
            LET Method(def) ==
                    [id |-> file_id \o ":" \o class.name \o "." \o def.name,
                     def |-> def,
                     keys |-> <<def.name, class.name \o "." \o def.name>>]
            IN  Map(Method, SelectSeq(class.body, IsFunction))
    IN  Flatten(Map(MethodsOf, SelectSeq(tree.body, IsClass)))
            \o Map(Function, SelectSeq(tree.body, IsFunction))

\* the edges the claim grants the whole codebase
GrantedCallEdges ==
    LET OfCaller(c) == EdgesOfCaller(c.id, c.def)
        OfFile(parsed) == Flatten(Map(OfCaller, CallersOf(parsed)))
    IN  Flatten(Map(OfFile, parsed_files))

C22_OneCallsEdgePerResolvedCall ==
    Finished =>
        LET granted == GrantedCallEdges
            IsCalls(r) == r.type = "CALLS"
            added == SelectSeq(graph.relationships, IsCalls)
        IN  \A e \in Range(granted) \cup Range(added) :
                LET Is(r) == r = e
                IN  Count(granted, Is) = Count(added, Is)

\* a finished run over callables with an attribute-style call that resolved,
\* a call that resolved to its caller, a call of an unregistered name, a call
\* without a name and a call inside a nested function
C22_Witness ==
    /\ Finished
    /\ \E p \in Range(parsed_files) : \E c \in Range(CallersOf(p)) :
            \E call \in Range(CallsIn(c.def)) :
                /\ call.func.t = "Attribute"
                /\ EdgesOfCaller(c.id, c.def) # <<>>
                /\ Range(EdgesOfCaller(c.id, c.def)) \subseteq Rels
    /\ \E p \in Range(parsed_files) : \E c \in Range(CallersOf(p)) :
            \E call \in Range(CallsIn(c.def)) :
                /\ InvokedName(call) \in DOMAIN registry
                /\ registry[InvokedName(call)] = c.id
    /\ \E p \in Range(parsed_files) : \E c \in Range(CallersOf(p)) :
            \E call \in Range(CallsIn(c.def)) :
                /\ InvokedName(call) # NONE
                /\ InvokedName(call) \notin DOMAIN registry
    /\ \E p \in Range(parsed_files) : \E c \in Range(CallersOf(p)) :
            \E call \in Range(CallsIn(c.def)) : InvokedName(call) = NONE
    /\ \E p \in Range(parsed_files) : \E c \in Range(CallersOf(p)) :
            \E inner \in Range(walk(c.def)) :
                /\ IsFunctionDef(inner) /\ inner # c.def
                /\ CallsIn(inner) # <<>>

(***************************************************************************)
(* C23  After phase 1 the registry maps each method under both its bare    *)
(* name and Class.method, and each standalone function under its bare      *)
(* name, to a node id; when several callables share a key, the key maps to *)
(* the one registered last, where registration order is: files in scan     *)
(* order and, within a file, methods of classes (in source order) before   *)
(* standalone functions (in source order).                                 *)
(***************************************************************************)
\* every (key, node id) the claim has registered, in its registration order
Registrations ==
    LET OfCaller(c) == [i \in 1..Len(c.keys) |-> [key |-> c.keys[i], id |-> c.id]]
        OfFile(parsed) == Flatten(Map(OfCaller, CallersOf(parsed)))
    IN  Flatten(Map(OfFile, parsed_files))

\* the yielded files the parser answers with a ParsedFile, in scan order
ParsedInScanOrder ==
    LET Parses(path) == parse_file(path, ContentAt(path), flavour).kind = "ParsedFile"
        Abs(path) == absolute(path, flavour)
    IN  Map(Abs, SelectSeq(yielded, Parses))

AfterPhaseOne == op = "process_codebase" /\ pc \in {"phase2", "extract", "done"}

C23_RegistryLastRegistrationWins ==
    AfterPhaseOne =>
        LET regs == Registrations
            Last(key) == CHOOSE i \in 1..Len(regs) :
                            /\ regs[i].key = key
                            /\ \A j \in (i + 1)..Len(regs) : regs[j].key # key
        IN  /\ [i \in 1..Len(parsed_files) |-> PathOf(parsed_files[i].file_path, flavour)]
                    = ParsedInScanOrder
            /\ DOMAIN registry = {regs[i].key : i \in 1..Len(regs)}
            /\ \A i \in 1..Len(regs) : registry[regs[i].key] = regs[Last(regs[i].key)].id
            /\ \A i \in 1..Len(regs) : regs[i].id \in NodeIds(graph)

\* phase 1 is over; a bare name is shared by methods of two classes and a
\* function of one file and maps to the function, and a key is shared by
\* callables of two files and maps to the one of the file scanned last
C23_Witness ==
    /\ AfterPhaseOne
    /\ Len(parsed_files) = 2
    /\ LET regs == Registrations
       IN  /\ \E i, j, k \in 1..Len(regs) :
                /\ i < j /\ j < k
                /\ regs[i].key = regs[j].key /\ regs[j].key = regs[k].key
                /\ Cardinality({regs[i].id, regs[j].id, regs[k].id}) = 3
                /\ \A n \in {i, j, k} :
                        get_node(graph, regs[n].id).file_path = parsed_files[2].file_path
                /\ ~get_node(graph, regs[k].id).properties.is_method
                /\ registry[regs[k].key] = regs[k].id
           /\ \E i, j \in 1..Len(regs) :
                /\ regs[i].key = regs[j].key
                /\ get_node(graph, regs[i].id).file_path = parsed_files[1].file_path
                /\ get_node(graph, regs[j].id).file_path = parsed_files[2].file_path
                /\ registry[regs[j].key] = regs[j].id

(***************************************************************************)
(* C24  For each base-class name of each class, phase 2 resolves it first  *)
(* to the node with id <file-id>:<BaseName> of the same file if that id    *)
(* exists, otherwise to the first Class node in node insertion order whose *)
(* name equals the base name; if resolved, exactly one                     *)
(* INHERITS_FROM(class -> base) edge is added, and if neither lookup       *)
(* succeeds no edge is added and no error is raised.                       *)
(***************************************************************************)
\* the places in graph.nodes of the Class nodes called name
ClassNodesAt(name) ==
    {i \in 1..Len(graph.nodes) :
        graph.nodes[i].type = "class" /\ graph.nodes[i].name = name}

\* the id the claim resolves a base name of a class of file_id to
ResolvedBase(file_id, base) ==
    IF file_id \o ":" \o base \in NodeIds(graph) THEN file_id \o ":" \o base
    ELSE IF ClassNodesAt(base) # {}
         THEN graph.nodes[CHOOSE i \in ClassNodesAt(base) :
                            \A j \in ClassNodesAt(base) : i <= j].id
    ELSE NONE

\* the (class, base name) pairs of the parsed files, one entry per mention
BaseMentions ==
    LET OfFile(parsed) ==
            LET OfClass(cls) ==
                    [i \in 1..Len(cls.base_classes) |->
                        [file_id |-> FileIdOf(parsed),
                         class_id |-> FileIdOf(parsed) \o ":" \o cls.name,
                         base |-> cls.base_classes[i]]]
            IN  Flatten(Map(OfClass, parsed.classes))
    IN  Flatten(Map(OfFile, parsed_files))

\* the edges the claim grants
GrantedInheritEdges ==
    LET Edge(m) ==
            IF ResolvedBase(m.file_id, m.base) # NONE
            THEN << CodeRelationship(m.class_id, ResolvedBase(m.file_id, m.base),
                                     "INHERITS_FROM", <<>>) >>
            ELSE <<>>
    IN  Flatten(Map(Edge, BaseMentions))

C24_BaseResolvedLocalThenFirstClass ==
    Finished =>
        LET granted == GrantedInheritEdges
            IsInherits(r) == r.type = "INHERITS_FROM"
            added == SelectSeq(graph.relationships, IsInherits)
        IN  /\ \A e \in Range(granted) \cup Range(added) :
                    LET Is(r) == r = e
                    IN  Count(granted, Is) = Count(added, Is)
            /\ calls[Len(calls)] = Returned_from("process_codebase", graph)

\* a finished run in which one base name was found in its own file, one in
\* the first of two other files that have a class of that name, and one
\* nowhere
C24_Witness ==
    /\ Finished
    /\ \E m \in Range(BaseMentions) :
            ResolvedBase(m.file_id, m.base) = m.file_id \o ":" \o m.base
    /\ \E m \in Range(BaseMentions) :
            /\ m.file_id \o ":" \o m.base \notin NodeIds(graph)
            /\ Cardinality(ClassNodesAt(m.base)) = 2
            /\ \E r \in RelsOfType("INHERITS_FROM") :
                    /\ r.source_id = m.class_id
                    /\ \E i \in ClassNodesAt(m.base) :
                            /\ graph.nodes[i].id = r.target_id
                            /\ \E j \in ClassNodesAt(m.base) : i < j
    /\ \E m \in Range(BaseMentions) :
            /\ ResolvedBase(m.file_id, m.base) = NONE
            /\ \A r \in RelsOfType("INHERITS_FROM") : r.source_id # m.class_id

(***************************************************************************)
(* C25  Phase 2 performs no registry writes and creates or replaces no     *)
(* file, class or function node: across relationship resolution the        *)
(* registry and every node created in phase 1 are unchanged, and the only  *)
(* nodes phase 2 adds are external Module nodes.                           *)
(***************************************************************************)
InPhaseTwo == op = "process_codebase" /\ pc \in {"phase2", "extract"}

C25_PhaseTwoFrame ==
    [][ InPhaseTwo =>
            /\ registry' = registry
            /\ Len(graph'.nodes) >= Len(graph.nodes)
            /\ \A i \in 1..Len(graph.nodes) : graph'.nodes[i] = graph.nodes[i]
            /\ \A i \in (Len(graph.nodes) + 1)..Len(graph'.nodes) :
                    /\ graph'.nodes[i].type = "module"
                    /\ graph'.nodes[i].properties.is_external ]_vars

\* phase 2 has added a Module node and edges of its three kinds to a graph
\* that had callables registered, and is still running
C25_Witness ==
    /\ InPhaseTwo
    /\ registry # <<>>
    /\ NodesOfType("module") # {}
    /\ \A type \in PhaseTwoTypes : RelsOfType(type) # {}
    /\ phase2_idx < Len(parsed_files)

(***************************************************************************)
(* C26  Every INHERITS_FROM relationship has a node of type class as its   *)
(* source and a node of type class as its target, for any codebase, also   *)
(* one where a function or method shares the base's name or a class is     *)
(* defined again.                                                          *)
(***************************************************************************)
C26_InheritsFromClassToClass ==
    \A r \in RelsOfType("INHERITS_FROM") :
        /\ get_node(graph, r.source_id).type = "class"
        /\ get_node(graph, r.target_id).type = "class"

(***************************************************************************)
(* C27  If no two callables in the codebase share a registry key and no    *)
(* two classes share a name, the result of process_codebase is independent *)
(* of the file scan order: every permutation of the scanned files yields   *)
(* the same node set and the same multiset of relationships.               *)
(***************************************************************************)
\* s in every order
ScanOrders(s) ==
    { [i \in 1..Len(s) |-> s[p[i]]] :
        p \in {q \in [1..Len(s) -> 1..Len(s)] :
                    \A i, j \in 1..Len(s) : i # j => q[i] # q[j]} }

\* no entry of the list s stands in it twice
NoRepeats(s) == \A i, j \in 1..Len(s) : i # j => s[i] # s[j]

\* the registry keys of all callables, and the names of all classes, of the
\* parsed files, one entry per callable and key, and per class
AllKeys == [i \in 1..Len(Registrations) |-> Registrations[i].key]
AllClassNames ==
    LET CName(cls) == cls.name
        Of(parsed) == Map(CName, parsed.classes)
    IN  Flatten(Map(Of, parsed_files))

SameMultiset(s, t) ==
    \A e \in Range(s) \cup Range(t) :
        LET Is(r) == r = e
        IN  Count(s, Is) = Count(t, Is)

C27_ScanOrderIndependent ==
    (Finished /\ NoRepeats(AllKeys) /\ NoRepeats(AllClassNames)) =>
        \A files \in ScanOrders(Map(AsFile, yielded)) :
            LET other == process_codebase(files, flavour).graph
            IN  /\ Range(other.nodes) = Range(graph.nodes)
                /\ SameMultiset(other.relationships, graph.relationships)

\* a finished run over two files with no shared key or class name, with an
\* inheritance and a call from the file scanned first into the file scanned
\* second; in the other order the relationship list is another list
C27_Witness ==
    /\ Finished
    /\ NoRepeats(AllKeys) /\ NoRepeats(AllClassNames)
    /\ Len(parsed_files) = 2
    /\ \A type \in {"INHERITS_FROM", "CALLS"} :
            \E r \in RelsOfType(type) :
                /\ get_node(graph, r.source_id).file_path = parsed_files[1].file_path
                /\ get_node(graph, r.target_id).file_path = parsed_files[2].file_path
    /\ \E files \in ScanOrders(Map(AsFile, yielded)) :
            process_codebase(files, flavour).graph.relationships # graph.relationships

(***************************************************************************)
(* C28 speaks of the relationship list a call returns; a list returned by  *)
(* a reused extractor is reached under SpecSession only.                   *)
(***************************************************************************)
PhaseOneTypes == {"DECLARES", "CONTAINS"}

\* the place of a phase-2 relationship type in _extract_relationships
StepOf(type) ==
    CASE type = "IMPORTS" -> 1
      [] type = "INHERITS_FROM" -> 2
      [] type = "CALLS" -> 3

\* in the relationships of g, phase-1 edges come before all phase-2 edges,
\* and the phase-2 edges of one file (the file of their source node) come
\* imports, then inheritance, then calls
InPhaseOrder(g) ==
    LET rels == g.relationships
        FileOf(r) == get_node(g, r.source_id).file_path
    IN  \A i, j \in 1..Len(rels) :
            i < j =>
                /\ ~(rels[i].type \in PhaseTwoTypes /\ rels[j].type \in PhaseOneTypes)
                /\ (/\ rels[i].type \in PhaseTwoTypes
                    /\ rels[j].type \in PhaseTwoTypes
                    /\ FileOf(rels[i]) = FileOf(rels[j]))
                        => StepOf(rels[i].type) <= StepOf(rels[j].type)

(***************************************************************************)
(* C28, as stated: in the relationship sequence any process_codebase call  *)
(* returns, every DECLARES and CONTAINS edge precedes every IMPORTS,       *)
(* INHERITS_FROM and CALLS edge, and each file's IMPORTS edges precede its *)
(* INHERITS_FROM edges, which precede its CALLS edges.                     *)
(***************************************************************************)
C28_EdgesInPhaseOrder ==
    ProcessCodebaseReturned => InPhaseOrder(calls[Len(calls)].ret)

(***************************************************************************)
(* C28, amended: the relationship sequence returned by the first call made *)
(* on a newly constructed RelationshipExtractor has every DECLARES and     *)
(* CONTAINS edge before every IMPORTS, INHERITS_FROM and CALLS edge, and   *)
(* each file's IMPORTS edges before its INHERITS_FROM edges before its     *)
(* CALLS edges.                                                            *)
(***************************************************************************)
C28_FirstCallEdgesInPhaseOrder ==
    (ProcessCodebaseReturned /\ FirstOnExtractor(Len(calls))) =>
        InPhaseOrder(calls[Len(calls)].ret)

\* a first call on a new extractor returned a list holding, for its first
\* file, all three kinds of phase-2 edge, followed by an IMPORTS edge of
\* the second file
C28_Witness ==
    /\ ProcessCodebaseReturned
    /\ FirstOnExtractor(Len(calls))
    /\ Len(parsed_files) = 2
    /\ LET rels == graph.relationships
           FileOf(r) == get_node(graph, r.source_id).file_path
       IN  /\ \A type \in PhaseTwoTypes :
                \E i \in 1..Len(rels) :
                    /\ rels[i].type = type
                    /\ FileOf(rels[i]) = parsed_files[1].file_path
           /\ \E i, j \in 1..Len(rels) :
                /\ i < j
                /\ rels[i].type = "CALLS"
                /\ FileOf(rels[i]) = parsed_files[1].file_path
                /\ rels[j].type = "IMPORTS"
                /\ FileOf(rels[j]) = parsed_files[2].file_path

(***************************************************************************)
(* C29  process_file on a parseable file adds that file's File, Class and  *)
(* Function nodes with their DECLARES and CONTAINS edges and registers its *)
(* callables, but adds no IMPORTS, INHERITS_FROM or CALLS edge and no      *)
(* Module node; on a parse failure it returns None and leaves the graph    *)
(* and the registry unchanged.  Checked, under SpecSession, on every step  *)
(* a process_file call takes, from its entry to its return.  A class and a *)
(* function of one name share one id; the node under it is the later one.  *)
(***************************************************************************)
\* the file's nodes, edges and registry entries are in g and reg
FileAdded(g, reg, parsed) ==
    LET file_id == _make_file_id(parsed.file_path, flavour)
        Has(source_id, target_id, type) ==
            \E r \in Range(g.relationships) :
                r.source_id = source_id /\ r.target_id = target_id /\ r.type = type
        Registered(key) == key \in DOMAIN reg /\ StartsWith(reg[key], file_id \o ":")
    IN  /\ file_id \in NodeIds(g)
        /\ get_node(g, file_id).type = "file"
        /\ \A cls \in Range(parsed.classes) :
            LET class_id == file_id \o ":" \o cls.name
            IN  /\ class_id \in NodeIds(g)
                /\ get_node(g, class_id).type \in {"class", "function"}
                /\ Has(file_id, class_id, "DECLARES")
                /\ \A method \in Range(cls.methods) :
                    LET method_id == class_id \o "." \o method.name
                    IN  /\ method_id \in NodeIds(g)
                        /\ get_node(g, method_id).type = "function"
                        /\ Has(class_id, method_id, "CONTAINS")
                        /\ Registered(method.name)
                        /\ Registered(qualified_name(method))
        /\ \A func \in Range(parsed.functions) :
            LET func_id == file_id \o ":" \o func.name
            IN  /\ func_id \in NodeIds(g)
                /\ get_node(g, func_id).type \in {"class", "function"}
                /\ Has(file_id, func_id, "DECLARES")
                /\ Registered(func.name)

C29_ProcessFileFrame ==
    [][(op' = "process_file" /\ pc' \in {"add_file", "file_return", "done"}) =>
        /\ IsPrefix(graph.relationships, graph'.relationships)
        /\ \A i \in (Len(graph.relationships) + 1)..Len(graph'.relationships) :
                graph'.relationships[i].type \in PhaseOneTypes
        /\ NodeIds(graph) \subseteq NodeIds(graph')
        /\ \A n \in Range(graph'.nodes) \ Range(graph.nodes) :
                /\ n.type \in {"file", "class", "function"}
                /\ n.file_path = result'.value.file_path
        /\ DOMAIN registry \subseteq DOMAIN registry'
        /\ result'.kind # "ParsedFile" =>
                /\ graph' = graph
                /\ registry' = registry
                /\ result' = None
        /\ pc' = "done" =>
                /\ calls' = Append(calls, Returned_from("process_file", result))
                /\ result.kind = "ParsedFile" =>
                        FileAdded(graph', registry', result.value)
      ]_vars

\* process_file has returned a ParsedFile with imports, a subclass and a
\* call inside a function, on an extractor on which process_file returned
\* None just before; the graph holds the file's nodes and edges and nothing
\* of phase 2
C29_Witness ==
    /\ op = "process_file"
    /\ pc = "done"
    /\ Len(calls) >= 2
    /\ calls[Len(calls)].op = "process_file"
    /\ calls[Len(calls) - 1] = Returned_from("process_file", None)
    /\ result.kind = "ParsedFile"
    /\ result.value.imports # <<>>
    /\ \E cls \in Range(result.value.classes) : cls.base_classes # <<>>
    /\ FileAdded(graph, registry, result.value)
    /\ RelsOfType("CONTAINS") # {}
    /\ \A type \in PhaseTwoTypes : RelsOfType(type) = {}
    /\ \A n \in Range(graph.nodes) : n.type # "module"

\* some part of the path is a name of the ignore set
HasIgnoredPart(path) == \E i \in 1..Len(path) : path[i] \in DEFAULT_IGNORE_DIRS

(***************************************************************************)
(* C30, as stated: the ignore check covers all components of a candidate's *)
(* full path, those of the root included: when the scan root is, or lies   *)
(* beneath, a directory whose name is in the ignore set, scanning that     *)
(* directory yields no files at all, whatever it contains.                 *)
(***************************************************************************)
C30_RootBeneathIgnoredYieldsNothing ==
    (root_kind = "dir" /\ HasIgnoredPart(absolute(root, flavour))) => yielded = <<>>

(***************************************************************************)
(* C30, amended: the ignore check covers all parts of a candidate's path   *)
(* as rglob builds it, the parts of the root path as it was given included *)
(* and the working directory of a relative root left out: no yielded path  *)
(* has an ignored name among those parts, and a root directory given with  *)
(* an ignored name in its path yields no files at all.                     *)
(***************************************************************************)
C30_GivenRootPartsChecked ==
    root_kind = "dir" =>
        /\ \A i \in 1..Len(yielded) : ~HasIgnoredPart(yielded[i])
        /\ HasIgnoredPart(root) => yielded = <<>>

\* a finished scan of a root given as a path through a directory called
\* build, holding an accepted file outside every ignored directory, that
\* yielded nothing
C30_Witness ==
    /\ op = "scan_to_list"
    /\ pc = "done"
    /\ root_kind = "dir"
    /\ "build" \in Range(root)
    /\ \E e \in fs : Accepted(e, root \o e.rel, op) /\ ~HasIgnoredPart(e.rel)
    /\ yielded = <<>>

====
